---- MODULE Spec2Model ----
(***************************************************************************)
(* Risk-scoring and anomaly engine of the security dashboard backend:      *)
(*   routers/dashboard.py            _calculate_dynamic_lga_risk           *)
(*   services/ml_engine.py           detect_anomalies, analyze_trends,     *)
(*                                   predict_threats, _detect_spatial_...  *)
(*   services/security_intelligence_engine.py   FIRMSecurityAnalyzer       *)
(*                                                                         *)
(* Conventions of the model.                                               *)
(*  - Coordinates and distances are integers in half-kilometres of arc    *)
(*    along one meridian (every point has longitude 0), where the          *)
(*    haversine formula reduces to R * |dlat| and is computed exactly.     *)
(*    Km(x) is x kilometres in that unit.                                  *)
(*  - Python floats are modelled by exact fixed-point integers; the unit   *)
(*    of each quantity is stated where it is defined.  IEEE rounding       *)
(*    error is not modelled.                                               *)
(*  - A Python dict is a record with a field "keys", the set of keys that  *)
(*    are present; Get models dict.get(key, default).                      *)
(*  - A Python str is a sequence of one-character strings.                 *)
(***************************************************************************)
EXTENDS Integers, Sequences, FiniteSets, TLC

VARIABLES pc, op, lga, lgaData, hotspots, reports, baseline, radius, ret, clock,
          registry, cache, broadcasting, active_connections, bcast, accepted

vars == <<pc, op, lga, lgaData, hotspots, reports, baseline, radius, ret, clock,
          registry, cache, broadcasting, active_connections, bcast, accepted>>

(***************************************************************************)
(* Bounds of the model.                                                    *)
(***************************************************************************)
MaxHotspots == 3
MaxRun == 14
MaxReports == 3
MaxRegions == 2
MaxClock == 1
MaxConnections == 3

(***************************************************************************)
(* Small arithmetic helpers.                                               *)
(***************************************************************************)
Abs(x) == IF x < 0 THEN -x ELSE x
Min(a, b) == IF a <= b THEN a ELSE b
Max(a, b) == IF a >= b THEN a ELSE b

\* x kilometres, in the model's unit of distance
Km(x) == 2 * x

(***************************************************************************)
(* Strings: str.lower() and the substring test `needle in hay`.            *)
(***************************************************************************)
ToLower ==
  [A |-> "a", B |-> "b", C |-> "c", D |-> "d", E |-> "e", F |-> "f", G |-> "g",
   H |-> "h", I |-> "i", J |-> "j", K |-> "k", L |-> "l", M |-> "m", N |-> "n",
   O |-> "o", P |-> "p", Q |-> "q", R |-> "r", S |-> "s", T |-> "t", U |-> "u",
   V |-> "v", W |-> "w", X |-> "x", Y |-> "y", Z |-> "z"]

Lower(s) == [i \in 1..Len(s) |-> IF s[i] \in DOMAIN ToLower THEN ToLower[s[i]] ELSE s[i]]

Contains(needle, hay) ==
  \E i \in 0..(Len(hay) - Len(needle)) : SubSeq(hay, i + 1, i + Len(needle)) = needle

\* dict.get(key, default)
Get(d, key, default) == IF key \in d.keys THEN d[key] ELSE default

(***************************************************************************)
(* Region names used by the code's membership sets and by the registry.    *)
(***************************************************************************)
Dandi == <<"D","a","n","d","i">>
Augie == <<"A","u","g","i","e">>
Argungu == <<"A","r","g","u","n","g","u">>
Bagudo == <<"B","a","g","u","d","o">>
Fakai == <<"F","a","k","a","i">>
Sakaba == <<"S","a","k","a","b","a">>
WasaguDanko == <<"W","a","s","a","g","u","/","D","a","n","k","o">>
Zuru == <<"Z","u","r","u">>
Shanga == <<"S","h","a","n","g","a">>
KokoBesse == <<"K","o","k","o","/","B","e","s","s","e">>
Yauri == <<"Y","a","u","r","i">>
ArewaDandi == <<"A","r","e","w","a"," ","D","a","n","d","i">>
Testville == <<"T","e","s","t","v","i","l","l","e">>

(***************************************************************************)
(* Geodesic distance.  With both points on one meridian (dlon = 0) the     *)
(* haversine term a is sin^2(dlat/2), so R*2*asin(sqrt(a)) = R*|dlat|;     *)
(* with both on the equator it is R*|dlon|.  Coordinates are already in    *)
(* units of arc length, so R*|d| is the absolute difference.  The model's  *)
(* inputs never leave the first case.                                      *)
(***************************************************************************)
HaversineMutant(lat1, lon1, lat2, lon2) ==
  IF lon1 = lon2 THEN lat2 - lat1 ELSE lon2 - lon1

\* routers/dashboard.py _haversine
Haversine(lat1, lon1, lat2, lon2) ==
  IF lon1 = lon2 THEN Abs(lat2 - lat1) ELSE Abs(lon2 - lon1)

\* services/ml_engine.py _haversine: the same statements
MlHaversine(lat1, lon1, lat2, lon2) ==
  IF lon1 = lon2 THEN Abs(lat2 - lat1) ELSE Abs(lon2 - lon1)

(***************************************************************************)
(* Region Risk Model: routers/dashboard.py _calculate_dynamic_lga_risk.    *)
(* Scores are in 1/10000.                                                  *)
(***************************************************************************)
HotspotDist(l, h) ==
  Haversine(l.lat, l.lon, Get(h, "latitude", 0), Get(h, "longitude", 0))

\* the per-hotspot linear decay term, lines 29..32
FireDecayMutant(l, h) ==
  LET dist == HotspotDist(l, h)
  IN  IF dist < Km(30) THEN (dist * 1500) \div Km(30) ELSE 0

FireDecay(l, h) ==
  LET dist == HotspotDist(l, h)
  IN  IF dist < Km(30) THEN (Max(0, Km(30) - dist) * 1500) \div Km(30) ELSE 0

RECURSIVE FireDecaySum(_, _, _)
FireDecaySum(l, hs, n) ==
  IF n = 0 THEN 0 ELSE FireDecaySum(l, hs, n - 1) + FireDecay(l, hs[n])

\* nearby_fires, line 33
NearbyFires(l, hs) == Cardinality({i \in 1..Len(hs) : HotspotDist(l, hs[i]) < Km(30)})

\* the density bonus given from two nearby hotspots on
DensityBonusMutant(l, hs) == IF NearbyFires(l, hs) >= 2 THEN 2000 ELSE 0

\* the cluster density bonus, lines 34..35
DensityBonus(l, hs) == IF NearbyFires(l, hs) >= 3 THEN 2000 ELSE 0

\* the text of a report as the dashboard scans it, line 40
DashboardText(r) == Lower(Get(r, "title", <<>>) \o <<" ">> \o Get(r, "description", <<>>))

DashboardMentions(l, r) == Contains(Lower(l.name), DashboardText(r))

\* one report's contribution, lines 41..47
ReportTerm(l, r) ==
  IF DashboardMentions(l, r)
  THEN IF Get(r, "severity", "none") = "critical" THEN 2000
       ELSE IF Get(r, "severity", "none") = "high" THEN 1000
       ELSE 500
  ELSE 0

RECURSIVE ReportSum(_, _, _)
ReportSum(l, rs, n) ==
  IF n = 0 THEN 0 ELSE ReportSum(l, rs, n - 1) + ReportTerm(l, rs[n])

\* lines 50..51
DashBorderLgas == {Dandi, Augie, Argungu, Bagudo}
DashSouthern == {Fakai, Sakaba, WasaguDanko, Zuru, Shanga, KokoBesse, Yauri}

\* the static geographic adjustment, lines 52..55
GeoAdjustMutant(l) ==
  IF l.name \in DashBorderLgas THEN 2500
  ELSE IF l.name \in DashSouthern THEN 1500
  ELSE 0

\* membership tested as the report scan tests names, by substring
GeoAdjustSubstring(l) ==
  IF \E s \in DashSouthern : Contains(s, l.name) THEN 2500
  ELSE IF \E b \in DashBorderLgas : Contains(b, l.name) THEN 1500
  ELSE 0

GeoAdjust(l) ==
  IF l.name \in DashSouthern THEN 2500
  ELSE IF l.name \in DashBorderLgas THEN 1500
  ELSE 0

\* the score before the clamp of line 57
RawScore(l, hs, rs) ==
  FireDecaySum(l, hs, Len(hs)) + DensityBonus(l, hs) + ReportSum(l, rs, Len(rs)) + GeoAdjust(l)

\* line 57
ClampScoreMutant(s) == s

ClampScore(s) == Min(s, 10000)

\* lines 58..64
RiskLabelMutant(score) ==
  IF score > 6000 THEN "critical"
  ELSE IF score > 4000 THEN "high"
  ELSE IF score > 2000 THEN "medium"
  ELSE "low"

RiskLabel(score) ==
  IF score >= 6000 THEN "critical"
  ELSE IF score >= 4000 THEN "high"
  ELSE IF score >= 2000 THEN "medium"
  ELSE "low"

CalculateDynamicLgaRisk(l, hs, rs) ==
  LET score == ClampScore(RawScore(l, hs, rs))
  IN  [label |-> RiskLabel(score), score |-> score]

(***************************************************************************)
(* round(x, ndigits) applied to the exact quotient n/d (d > 0), rounding   *)
(* half to even as Python does; the result is in units of 10^-ndigits      *)
(* when n is pre-multiplied by 10^ndigits.                                 *)
(***************************************************************************)
RoundDiv(n, d) ==
  LET q == n \div d
      r == n % d
  IN  IF 2 * r < d THEN q
      ELSE IF 2 * r > d THEN q + 1
      ELSE IF q % 2 = 0 THEN q ELSE q + 1

RECURSIVE SumOver(_, _, _)
\* sum(f[i] for i in 1..n)
SumOver(f, n, acc) == IF n = 0 THEN acc ELSE SumOver(f, n - 1, acc + f[n])

SetMax(S) == CHOOSE x \in S : \A y \in S : y <= x

(***************************************************************************)
(* services/ml_engine.py _detect_spatial_clusters.  SpatialGroups is the   *)
(* list of groups the outer loop builds (one per seed, members as indices  *)
(* in input order); DetectSpatialClusters keeps those of length >= 2.      *)
(***************************************************************************)
HotspotPairDist(h1, h2) ==
  MlHaversine(Get(h1, "latitude", 0), Get(h1, "longitude", 0),
            Get(h2, "latitude", 0), Get(h2, "longitude", 0))

\* the inner loop of lines 199..208 for seed i
SpatialMembers(hs, thr, i, visited) ==
  {i} \cup {j \in 1..Len(hs) : j \notin visited /\ j # i /\ HotspotPairDist(hs[i], hs[j]) < thr}

RECURSIVE SpatialGroups(_, _, _, _)
SpatialGroups(hs, thr, i, visited) ==
  IF i > Len(hs) THEN <<>>
  ELSE IF i \in visited THEN SpatialGroups(hs, thr, i + 1, visited)
  ELSE LET m == SpatialMembers(hs, thr, i, visited)
       IN  <<m>> \o SpatialGroups(hs, thr, i + 1, visited \cup m)

\* lines 210..217; the centre is kept as the exact fraction sum/size
ClusterRecord(hs, m) ==
  [size |-> Cardinality(m),
   center_lat |-> <<SumOver([i \in 1..Len(hs) |-> IF i \in m THEN Get(hs[i], "latitude", 0) ELSE 0], Len(hs), 0), Cardinality(m)>>,
   center_lon |-> <<SumOver([i \in 1..Len(hs) |-> IF i \in m THEN Get(hs[i], "longitude", 0) ELSE 0], Len(hs), 0), Cardinality(m)>>]

\* every group kept, a seed that stayed alone included
DetectSpatialClustersMutant(hs, thr) ==
  LET groups == SpatialGroups(hs, thr, 1, {})
  IN  [k \in 1..Len(groups) |-> ClusterRecord(hs, groups[k])]

\* lines 191..219
DetectSpatialClusters(hs, thr) ==
  LET groups == SpatialGroups(hs, thr, 1, {})
      kept == SelectSeq(groups, LAMBDA m : Cardinality(m) >= 2)
  IN  [k \in 1..Len(kept) |-> ClusterRecord(hs, kept[k])]

(***************************************************************************)
(* services/ml_engine.py detect_anomalies.                                 *)
(* baseline_mean is an integer, baseline_std is in tenths; entry scores    *)
(* are in 1/600, the report's score in thousandths, z_score in hundredths. *)
(***************************************************************************)
\* max(baseline_std, 0.1), in tenths
StdFloor(stdT) == Max(stdT, 1)

\* z_score > k, for z_score = (count - mean) / max(std, 0.1), line 14
ZAboveMutant(count, mean, stdT, k) == (count - mean) * 10 >= k * StdFloor(stdT)

ZAbove(count, mean, stdT, k) == (count - mean) * 10 > k * StdFloor(stdT)

\* lines 24..30
FrequencySpike(count, mean, stdT) ==
  IF ZAbove(count, mean, stdT, 2)
  THEN <<[type |-> "frequency_spike",
          severity |-> IF ZAbove(count, mean, stdT, 3) THEN "critical" ELSE "high",
          score |-> Min(((count - mean) * 10 * 120) \div StdFloor(stdT), 600),
          size |-> count]>>
  ELSE <<>>

\* lines 31..40
SpatialEntriesMutant(clusters) ==
  [k \in 1..Len(clusters) |->
    [type |-> "spatial_cluster",
     severity |-> IF clusters[k].size >= 5 THEN "high" ELSE "medium",
     score |-> Min(clusters[k].size * 60, 600),
     size |-> clusters[k].size]]

SpatialEntries(clusters) ==
  LET big == SelectSeq(clusters, LAMBDA c : c.size >= 3)
  IN  [k \in 1..Len(big) |->
        [type |-> "spatial_cluster",
         severity |-> IF big[k].size >= 5 THEN "high" ELSE "medium",
         score |-> Min(big[k].size * 60, 600),
         size |-> big[k].size]]

\* lines 20..21
Truthy(h, key) == key \in h.keys /\ key \notin h.nulls /\ h[key] # 0

BrightnessAnomalies(hs) ==
  {i \in 1..Len(hs) : Truthy(hs[i], "brightness") /\ hs[i].brightness > 400}

\* lines 41..48
BrightnessEntry(hs) ==
  LET idx == BrightnessAnomalies(hs)
  IN  IF idx # {}
      THEN <<[type |-> "brightness_anomaly",
              severity |-> "high",
              score |-> Min(SetMax({hs[i].brightness : i \in idx}), 600),
              size |-> Cardinality(idx)]>>
      ELSE <<>>

\* line 50
OverallScore(details) ==
  IF Len(details) = 0 THEN 0 ELSE SetMax({details[k].score : k \in 1..Len(details)})

DetectAnomalies(hs, mean, stdT) ==
  IF Len(hs) = 0
  THEN [keys |-> {"anomalies_detected", "count", "details", "score"},
        anomalies_detected |-> FALSE, count |-> 0, details |-> <<>>, score |-> 0,
        z_score |-> 0, hotspot_count |-> 0]
  ELSE LET count == Len(hs)
           details == FrequencySpike(count, mean, stdT)
                        \o SpatialEntries(DetectSpatialClusters(hs, Km(15)))
                        \o BrightnessEntry(hs)
       IN  [keys |-> {"anomalies_detected", "count", "details", "score", "z_score", "hotspot_count"},
            anomalies_detected |-> Len(details) > 0,
            count |-> Len(details),
            details |-> details,
            score |-> RoundDiv(OverallScore(details) * 1000, 600),
            z_score |-> RoundDiv((count - mean) * 10 * 100, StdFloor(stdT)),
            hotspot_count |-> count]

(***************************************************************************)
(* services/ml_engine.py analyze_trends.  threat_ratio is in hundredths.   *)
(***************************************************************************)
\* severity_counts[sev], lines 68..74
SeverityCount(rs, sev) == Cardinality({i \in 1..Len(rs) : Get(rs[i], "severity", "low") = sev})

\* category_counts[cat], lines 75..76
CategoryCount(rs, cat) == Cardinality({i \in 1..Len(rs) : Get(rs[i], "category", "general") = cat})

\* max(category_counts, key=category_counts.get): the first-inserted key of
\* maximal count, line 101
DominantCategory(rs) ==
  LET cat(i) == Get(rs[i], "category", "general")
      best == CHOOSE i \in 1..Len(rs) :
                /\ \A j \in 1..Len(rs) : CategoryCount(rs, cat(j)) <= CategoryCount(rs, cat(i))
                /\ \A j \in 1..(i - 1) : CategoryCount(rs, cat(j)) < CategoryCount(rs, cat(i))
  IN  cat(best)

\* the numerator of threat_ratio, line 79
ThreatWeight(rs) == SeverityCount(rs, "critical") * 4 + SeverityCount(rs, "high") * 3

\* lines 81..92, for threat_ratio = num / den
TrendOf(num, den) ==
  IF num > 2 * den THEN [trend |-> "escalating", direction |-> "up"]
  ELSE IF num > den THEN [trend |-> "elevated", direction |-> "up"]
  ELSE IF 2 * num > den THEN [trend |-> "moderate", direction |-> "stable"]
  ELSE [trend |-> "stable", direction |-> "down"]

\* the early return of lines 64..65
AnalyzeTrendsEmpty == [keys |-> {"trend", "direction", "details"},
        trend |-> "stable", direction |-> "flat", threat_ratio |-> 0,
        total_reports |-> 0, dominant_category |-> "none"]

AnalyzeTrends(rs) ==
  IF Len(rs) = 0
  THEN AnalyzeTrendsEmpty
  ELSE LET total == Len(rs)
           t == TrendOf(ThreatWeight(rs), Max(total, 1))
       IN  [keys |-> {"trend", "direction", "threat_ratio", "total_reports",
                      "severity_breakdown", "category_breakdown",
                      "dominant_category", "recommendation"},
            trend |-> t.trend, direction |-> t.direction,
            threat_ratio |-> RoundDiv(ThreatWeight(rs) * 100, Max(total, 1)),
            total_reports |-> total,
            dominant_category |-> DominantCategory(rs)]

(***************************************************************************)
(* services/ml_engine.py predict_threats.                                  *)
(* base_risk is in hundredths, fire_proximity_score in sixtieths,          *)
(* intel_score in fifths, the composite in 1/30000 (so that the weights    *)
(* 0.4, 0.2 and the multipliers 1.2, 1.3 are exact); composite_score, the  *)
(* rounded field of the record, is in thousandths.                         *)
(***************************************************************************)
\* risk_weights, line 112, and .get(level, default)
RiskWeight(level, default) ==
  IF level = "critical" THEN 100
  ELSE IF level = "high" THEN 75
  ELSE IF level = "medium" THEN 50
  ELSE IF level = "low" THEN 25
  ELSE default

\* line 115
BaseRisk(l) == RiskWeight(Get(l, "risk", "low"), 25)

\* lines 118..123
PredictorDist(l, h) ==
  MlHaversine(l.lat, l.lon, Get(h, "latitude", 0), Get(h, "longitude", 0))

FireProximity(l, hs) ==
  LET near == {i \in 1..Len(hs) : PredictorDist(l, hs[i]) < Km(30)}
  IN  SetMax({Km(30) - PredictorDist(l, hs[i]) : i \in near} \cup {0})

\* the text of a report as the predictor scans it, line 129
PredictorText(r) == Lower(Get(r, "title", <<>>) \o Get(r, "description", <<>>))

PredictorMentions(l, r) == Contains(Lower(l.name), PredictorText(r))

\* lines 126..130
IntelScore(l, rs) == Min(Cardinality({i \in 1..Len(rs) : PredictorMentions(l, rs[i])}), 5)

\* lines 133..134, in tenths
BorderLgas == {Dandi, Augie, Argungu, Bagudo}
BorderMultiplier(l) == IF l.name \in BorderLgas THEN 12 ELSE 10

\* lines 137..138, in tenths
SouthernCorridor == {Fakai, Sakaba, WasaguDanko, Zuru}
CorridorMultiplier(l) == IF l.name \in SouthernCorridor THEN 13 ELSE 10

\* the weighted sum without the baseline awareness term
WeightedSumMutant(l, rs, hs) ==
  BaseRisk(l) * 120 + FireProximity(l, hs) * 100 + IntelScore(l, rs) * 1200

\* the weighted sum of lines 141..146, before the multipliers, in 1/30000:
\* base_risk * 0.4 + fire_proximity_score * 0.2 + intel_score * 0.2 + 0.2
WeightedSum(l, rs, hs) ==
  BaseRisk(l) * 120 + FireProximity(l, hs) * 100 + IntelScore(l, rs) * 1200 + 6000

\* lines 141..146: the composite before the clamp
PreClampCompositeMutant(l, rs, hs) ==
  ((WeightedSum(l, rs, hs) - 6000) * BorderMultiplier(l) * CorridorMultiplier(l)) \div 100 + 6000

PreClampComposite(l, rs, hs) ==
  (WeightedSum(l, rs, hs) * BorderMultiplier(l) * CorridorMultiplier(l)) \div 100

\* line 148
Composite(l, rs, hs) == Min(PreClampComposite(l, rs, hs), 30000)

\* lines 151..158
PredictedLevelMutant(c) ==
  IF c >= 22500 THEN "critical"
  ELSE IF c >= 16500 THEN "high"
  ELSE IF c >= 10500 THEN "medium"
  ELSE "low"

PredictedLevel(c) ==
  IF c > 22500 THEN "critical"
  ELSE IF c > 16500 THEN "high"
  ELSE IF c > 10500 THEN "medium"
  ELSE "low"

\* line 174 with >= for >
RiskChangeMutant(predicted, base) ==
  IF RiskWeight(predicted, 0) >= base THEN "up"
  ELSE IF RiskWeight(predicted, 0) < base THEN "down"
  ELSE "flat"

\* line 174
RiskChange(predicted, base) ==
  IF RiskWeight(predicted, 0) > base THEN "up"
  ELSE IF RiskWeight(predicted, 0) < base THEN "down"
  ELSE "flat"

\* lines 160..175
Prediction(l, rs, hs) ==
  LET c == Composite(l, rs, hs)
      predicted == PredictedLevel(c)
  IN  [lga |-> l.name, lat |-> l.lat, lon |-> l.lon,
       current_risk |-> Get(l, "risk", "low"),
       predicted_risk |-> predicted,
       composite_score |-> RoundDiv(c, 30),
       factors |-> [base_risk |-> BaseRisk(l),
                    fire_proximity |-> RoundDiv(FireProximity(l, hs) * 100, Km(30)),
                    intel_correlation |-> IntelScore(l, rs) * 20,
                    border_factor |-> BorderMultiplier(l),
                    corridor_factor |-> CorridorMultiplier(l)],
       risk_change |-> RiskChange(predicted, BaseRisk(l))]

\* list.sort(key=composite_score, reverse=True): a stable sort, so records of
\* equal key keep their relative order.  InsertDesc puts p behind every record
\* whose key is >= p's.
InsertDescMutant(sorted, p) ==
  LET ahead == {k \in 1..Len(sorted) : sorted[k].composite_score > p.composite_score}
      n == Cardinality(ahead)
  IN  SubSeq(sorted, 1, n) \o <<p>> \o SubSeq(sorted, n + 1, Len(sorted))

InsertDesc(sorted, p) ==
  LET ahead == {k \in 1..Len(sorted) : sorted[k].composite_score >= p.composite_score}
      n == Cardinality(ahead)
  IN  SubSeq(sorted, 1, n) \o <<p>> \o SubSeq(sorted, n + 1, Len(sorted))

RECURSIVE SortDesc(_, _)
\* line 177
SortDesc(ps, n) == IF n = 0 THEN <<>> ELSE InsertDesc(SortDesc(ps, n - 1), ps[n])

\* lines 111..186; now is the value datetime.now() returns at line 181
PredictThreats(ld, rs, hs, now) ==
  LET predictions == SortDesc([k \in 1..Len(ld) |-> Prediction(ld[k], rs, hs)], Len(ld))
  IN  [predictions |-> predictions,
       timestamp |-> now,
       highest_risk |-> IF Len(predictions) > 0 THEN <<predictions[1]>> ELSE <<>>,
       escalating_lgas |-> SelectSeq(predictions, LAMBDA p : p.risk_change = "up"),
       de_escalating_lgas |-> SelectSeq(predictions, LAMBDA p : p.risk_change = "down"),
       model |-> "CITADEL-THREAT-PRED-v2"]

(***************************************************************************)
(* services/geography.py haversine_distance: the same formula, with the    *)
(* same reduction on the model's coordinates.                              *)
(***************************************************************************)
HaversineDistance(lat1, lon1, lat2, lon2) ==
  IF lon1 = lon2 THEN Abs(lat2 - lat1) ELSE Abs(lon2 - lon1)

(***************************************************************************)
(* services/geography.py calculate_direction.  A longitude is a float with *)
(* a signed zero: [v |-> value, negz |-> TRUE for -0.0].  Angles are in    *)
(* half degrees.                                                           *)
(***************************************************************************)
\* math.degrees(math.atan2(dx, dy)) in half degrees, rounded down, on the
\* displacements of the model; negz tells that dx is -0.0.  The sector
\* boundaries are whole half degrees and the sectors are closed below, so
\* the rounded angle lies in the sector of the exact one.
Atan2Degrees(dx, dy, negz) ==
  IF dx = 0 THEN (IF dy >= 0 THEN 0 ELSE IF negz THEN -360 ELSE 360)
  ELSE IF dy = 0 THEN (IF dx > 0 THEN 180 ELSE -180)
  ELSE IF Abs(dx) = Abs(dy)
  THEN (IF dx > 0 THEN 1 ELSE -1) * (IF dy > 0 THEN 90 ELSE 270)
  ELSE CASE <<dx, dy>> = <<5, 12>> -> 45
         [] <<dx, dy>> = <<12, 5>> -> 134
         [] <<dx, dy>> = <<12, -5>> -> 225
         [] <<dx, dy>> = <<5, -12>> -> 314
         [] <<dx, dy>> = <<-5, 12>> -> -46
         [] <<dx, dy>> = <<-12, 5>> -> -135
         [] <<dx, dy>> = <<-12, -5>> -> -226
         [] <<dx, dy>> = <<-5, -12>> -> -315
         [] <<dx, dy>> = <<2, 5>> -> 43
         [] <<dx, dy>> = <<2, -5>> -> 316
         [] <<dx, dy>> = <<-2, 5>> -> -44
         [] <<dx, dy>> = <<-2, -5>> -> -317

\* lines 216..233 with the south sector open at 180 degrees
SectorMutant(angle) ==
  IF -45 <= angle /\ angle < 45 THEN "north"
  ELSE IF 45 <= angle /\ angle < 135 THEN "northeast"
  ELSE IF 135 <= angle /\ angle < 225 THEN "east"
  ELSE IF 225 <= angle /\ angle < 315 THEN "southeast"
  ELSE IF (315 <= angle /\ angle < 360) \/ (-360 <= angle /\ angle < -315) THEN "south"
  ELSE IF -315 <= angle /\ angle < -225 THEN "southwest"
  ELSE IF -225 <= angle /\ angle < -135 THEN "west"
  ELSE IF -135 <= angle /\ angle < -45 THEN "northwest"
  ELSE "unknown"

\* lines 216..233
Sector(angle) ==
  IF -45 <= angle /\ angle < 45 THEN "north"
  ELSE IF 45 <= angle /\ angle < 135 THEN "northeast"
  ELSE IF 135 <= angle /\ angle < 225 THEN "east"
  ELSE IF 225 <= angle /\ angle < 315 THEN "southeast"
  ELSE IF (315 <= angle /\ angle <= 360) \/ (-360 <= angle /\ angle < -315) THEN "south"
  ELSE IF -315 <= angle /\ angle < -225 THEN "southwest"
  ELSE IF -225 <= angle /\ angle < -135 THEN "west"
  ELSE IF -135 <= angle /\ angle < -45 THEN "northwest"
  ELSE "unknown"

\* lines 211..214
DirectionAngle(lat1, lon1, lat2, lon2) ==
  \* lon2 - lon1 is -0.0 only for (-0.0) - (+0.0)
  Atan2Degrees(lon2.v - lon1.v, lat2 - lat1,
               lon2.v = 0 /\ lon1.v = 0 /\ lon2.negz /\ ~lon1.negz)

CalculateDirection(lat1, lon1, lat2, lon2) == Sector(DirectionAngle(lat1, lon1, lat2, lon2))

RECURSIVE SortedSeq(_)
\* the elements of a finite set of integers in increasing order
SortedSeq(S) ==
  IF S = {} THEN <<>>
  ELSE LET m == CHOOSE x \in S : \A y \in S : x <= y
       IN  <<m>> \o SortedSeq(S \ {m})

(***************************************************************************)
(* services/security_intelligence_engine.py FIRMSecurityAnalyzer.          *)
(* _cluster_fires: a cluster is the sequence of the indices of its fires   *)
(* in the order they were appended.  fire.get("latitude") is None for a    *)
(* record without the key, and haversine_distance then raises TypeError    *)
(* in math.radians: the call ends with raised = TRUE and returns nothing.  *)
(***************************************************************************)
\* dict.get(key) is not None
HasValue(d, key) == key \in d.keys /\ key \notin d.nulls

HasCoords(f) == HasValue(f, "latitude") /\ HasValue(f, "longitude")

FireDist(f, g) == HaversineDistance(f.latitude, f.longitude, g.latitude, g.longitude)

WithinRadiusMutant(f, g, radius_km) == FireDist(f, g) <= 2 * radius_km

\* line 125
WithinRadius(f, g, radius_km) == FireDist(f, g) <= radius_km

\* the fires the inner loop of lines 118..127 visits for seed i
LaterUnused(fires, i, used) == {j \in (i + 1)..Len(fires) : j \notin used}

SeedMembersMutant(fires, radius_km, i, used) ==
  <<i>> \o SortedSeq({j \in (i + 1)..Len(fires) : WithinRadius(fires[i], fires[j], radius_km)})

\* lines 112..127: the cluster of seed i
SeedMembers(fires, radius_km, i, used) ==
  <<i>> \o SortedSeq({j \in LaterUnused(fires, i, used) : WithinRadius(fires[i], fires[j], radius_km)})

Range(seq) == {seq[k] : k \in 1..Len(seq)}

RECURSIVE ClusterFiresFrom(_, _, _, _)
ClusterFiresFrom(fires, radius_km, i, used) ==
  IF i > Len(fires) THEN [raised |-> FALSE, clusters |-> <<>>]
  ELSE IF i \in used THEN ClusterFiresFrom(fires, radius_km, i + 1, used)
  ELSE LET later == LaterUnused(fires, i, used)
       IN  IF later # {} /\ (~HasCoords(fires[i]) \/ \E j \in later : ~HasCoords(fires[j]))
           THEN [raised |-> TRUE, clusters |-> <<>>]
           ELSE LET m == SeedMembers(fires, radius_km, i, used)
                    rest == ClusterFiresFrom(fires, radius_km, i + 1, used \cup Range(m))
                IN  IF rest.raised THEN rest
                    ELSE [raised |-> FALSE, clusters |-> <<m>> \o rest.clusters]

\* lines 101..131
ClusterFires(fires, radius_km) == ClusterFiresFrom(fires, radius_km, 1, {})

\* statistics.mean raises TypeError on a None element
MeanRaises(fires, m, key) == \E k \in 1..Len(m) : key \in fires[m[k]].keys /\ key \in fires[m[k]].nulls

\* sum(f.get(key, 0) for f in cluster): the numerator of statistics.mean
ClusterSum(fires, m, key) == SumOver([k \in 1..Len(m) |-> Get(fires[m[k]], key, 0)], Len(m), 0)

\* the three conditions of lines 150, 158 and 166, for fire_count = n and
\* avg_brightness = sumB / n
IsMining(n, sumB) == n >= 3 /\ 400 * n <= sumB /\ sumB <= 600 * n
IsArson(n, sumB) == sumB > 500 * n /\ n <= 3
IsCamp(n, sumB) == n >= 2 /\ 300 * n <= sumB /\ sumB < 400 * n

\* the if/elif chain tested with arson first
FireSignatureMutant(n, sumB) ==
  IF IsArson(n, sumB)
  THEN [indicator_type |-> "suspected_arson_evidence_burning", confidence |-> "high", severity |-> "critical"]
  ELSE IF IsMining(n, sumB)
  THEN [indicator_type |-> "suspected_illegal_mining", confidence |-> "medium", severity |-> "high"]
  ELSE IF IsCamp(n, sumB)
  THEN [indicator_type |-> "suspected_bandit_camp", confidence |-> "medium", severity |-> "high"]
  ELSE [indicator_type |-> "unknown_fire", confidence |-> "low", severity |-> "medium"]

\* lines 143..171
FireSignature(n, sumB) ==
  IF IsMining(n, sumB)
  THEN [indicator_type |-> "suspected_illegal_mining", confidence |-> "medium", severity |-> "high"]
  ELSE IF IsArson(n, sumB)
  THEN [indicator_type |-> "suspected_arson_evidence_burning", confidence |-> "high", severity |-> "critical"]
  ELSE IF IsCamp(n, sumB)
  THEN [indicator_type |-> "suspected_bandit_camp", confidence |-> "medium", severity |-> "high"]
  ELSE [indicator_type |-> "unknown_fire", confidence |-> "low", severity |-> "medium"]

\* lines 134..182; now is the value datetime.now() returns at line 177
ClassifyFireCluster(fires, m, now) ==
  LET n == Len(m)
      sig == FireSignature(n, ClusterSum(fires, m, "brightness"))
  IN  [indicator_type |-> sig.indicator_type,
       source |-> "NASA_FIRMS",
       location |-> [lat |-> <<ClusterSum(fires, m, "latitude"), n>>,
                     lon |-> <<ClusterSum(fires, m, "longitude"), n>>],
       timestamp |-> now,
       confidence |-> sig.confidence,
       severity |-> sig.severity,
       fire_count |-> n]

\* lines 72..98
AnalyzeFiresForSecurity(fire_data, now) ==
  IF Len(fire_data) = 0 THEN [raised |-> FALSE, indicators |-> <<>>]
  ELSE LET c == ClusterFires(fire_data, Km(2))
       IN  IF c.raised THEN [raised |-> TRUE, indicators |-> <<>>]
           ELSE IF \E k \in 1..Len(c.clusters) :
                     \/ MeanRaises(fire_data, c.clusters[k], "brightness")
                     \/ MeanRaises(fire_data, c.clusters[k], "frp")
                     \/ MeanRaises(fire_data, c.clusters[k], "latitude")
                     \/ MeanRaises(fire_data, c.clusters[k], "longitude")
           THEN [raised |-> TRUE, indicators |-> <<>>]
           ELSE [raised |-> FALSE,
                 indicators |-> [k \in 1..Len(c.clusters) |->
                                   ClassifyFireCluster(fire_data, c.clusters[k], now)]]

(***************************************************************************)
(* Inputs of the model.                                                    *)
(***************************************************************************)
\* a FIRMS hotspot as services/firms.py builds it; frp 5 MW
Hotspot(lat, bright) ==
  [keys |-> {"latitude", "longitude", "brightness", "frp"}, nulls |-> {},
   latitude |-> lat, longitude |-> 0, brightness |-> bright, frp |-> 5]

\* a malformed record: the key "latitude" is missing
NoLatHotspot(bright) ==
  [keys |-> {"longitude", "brightness", "frp"}, nulls |-> {},
   latitude |-> 0, longitude |-> 0, brightness |-> bright, frp |-> 5]

\* a hotspot whose FIRMS row has an empty frp: services/firms.py line 41 stores
\* "frp": None
NoFrpHotspot(lat, bright) ==
  [keys |-> {"latitude", "longitude", "brightness", "frp"}, nulls |-> {"frp"},
   latitude |-> lat, longitude |-> 0, brightness |-> bright, frp |-> 0]

\* positions are half-kilometres north of the equator: Kebbi lies some
\* 1 300 km north of latitude 0, the default of a missing coordinate
HotspotSet == {Hotspot(2680, 350), Hotspot(2695, 450), Hotspot(2740, 550), NoLatHotspot(350)}

Repeat(x, n) == [i \in 1..n |-> x]

SeqsUpTo(S, n) == UNION {[1..k -> S] : k \in 0..n}

\* short batches of any composition, and bursts of one record repeated
HotspotLists ==
  SeqsUpTo(HotspotSet, MaxHotspots)
    \cup {Repeat(h, n) : h \in HotspotSet, n \in (MaxHotspots + 1)..MaxRun}

\* a pair of coordinates, and the pairs the distance functions are applied
\* to: two points of one meridian, or two points of the equator
Point(lat, lon) ==
  [keys |-> {"latitude", "longitude"}, nulls |-> {}, latitude |-> lat, longitude |-> lon,
   brightness |-> 0, frp |-> 0]

Points == {Point(2680, 0), Point(2695, 0), Point(0, 0), Point(0, 15), Point(0, 2680)}

PointPairs ==
  {pq \in Points \X Points :
     pq[1].longitude = pq[2].longitude \/ (pq[1].latitude = 0 /\ pq[2].latitude = 0)}

\* a point whose longitude is a float with a signed zero
GeoPoint(lat, lon, negz) ==
  [keys |-> {"latitude", "longitude"}, nulls |-> {}, latitude |-> lat,
   longitude |-> [v |-> lon, negz |-> negz], brightness |-> 0, frp |-> 0]

\* a start point and an end point; the displacements between them are the
\* axes, the diagonals, and directions next to the sector boundaries; where
\* both longitudes are zero each may be -0.0
DirectionPairs ==
  {<<GeoPoint(lat, lon, FALSE), GeoPoint(lat + d[2], lon + d[1], FALSE)>> :
     lat \in {0, 2680}, lon \in {0, 12},
     d \in {<<dx, dy>> \in (-12..12) \X (-12..12) :
              \/ dx = 0 /\ Abs(dy) <= 1
              \/ dy = 0 /\ Abs(dx) = 1
              \/ Abs(dx) = 1 /\ Abs(dy) = 1
              \/ {Abs(dx), Abs(dy)} = {5, 12}
              \/ Abs(dx) = 2 /\ Abs(dy) = 5}}
  \cup
  {<<GeoPoint(0, 0, n1), GeoPoint(dy, 0, n2)>> : n1, n2 \in BOOLEAN, dy \in {-1, 0, 1}}

\* the batches the fire analyzer is called with
FireLists ==
  HotspotLists \cup SeqsUpTo(HotspotSet \cup {NoFrpHotspot(2680, 350)}, MaxHotspots)

SingleHotspotLists == {<<>>} \cup {<<h>> : h \in HotspotSet}

\* a row of config.KEBBI_LGAS (or a caller-supplied region of the same shape)
Region(name, lat, risk) ==
  [keys |-> {"name", "lat", "lon", "risk"}, name |-> name, lat |-> lat, lon |-> 0, risk |-> risk]

Regions ==
  {Region(Zuru, 2680, "critical"), Region(Yauri, 2650, "high"), Region(Dandi, 2680, "high"),
   Region(ArewaDandi, 2650, "low"), Region(Testville, 2680, "critical")}

RegionLists == SeqsUpTo(Regions, MaxRegions)

Report(title, description, severity, category) ==
  [keys |-> {"title", "description", "severity", "category"},
   title |-> title, description |-> description, severity |-> severity, category |-> category]

ReportSet ==
  {Report(<<"Z","u">>, <<"r","u">>, "high", "banditry"),
   Report(<<"Z","U","R","U">>, Testville, "critical", "banditry"),
   Report(<<"A","r","e","w","a">>, Dandi, "medium", "border")}

ReportLists == SeqsUpTo(ReportSet, MaxReports)

SingleReportLists == {<<>>} \cup {<<r>> : r \in ReportSet}

\* (baseline_mean, baseline_std in tenths); <<5, 30>> are the defaults
Baselines == {<<5, 30>>, <<1, 10>>, <<2, 1>>, <<0, 0>>}

\* radius_km
Radii == {Km(2), 15, 45}

\* distance_threshold_km; Km(15) is the default and the value detect_anomalies
\* passes
Thresholds == {Km(15), 50}

\* config.KEBBI_LGAS, in the order of the file: the rows of four of the 21
\* regions
KEBBI_LGAS ==
  <<Region(ArewaDandi, 2650, "low"), Region(Dandi, 2680, "high"),
    Region(Yauri, 2650, "high"), Region(Zuru, 2680, "critical")>>

\* _cache = {} at import: none of the keys the dashboard reads or writes is
\* in it
EmptyCache ==
  [k \in {"intel_data", "fire_data", "dashboard_overview", "lga_data"} |->
     [present |-> FALSE]]

NoRegion == [keys |-> {}, name |-> <<>>, lat |-> 0, lon |-> 0, risk |-> ""]
NoBaseline == <<0, 0>>

(***************************************************************************)
(* The state machine: a caller picks arguments and calls one operation,    *)
(* and may repeat the call later with the same arguments.  clock is the    *)
(* latest value datetime.now() has returned; a call that reads the wall    *)
(* clock gets a value that is not earlier.                                 *)
(***************************************************************************)
Init ==
  /\ pc = "idle"
  /\ op = "none"
  /\ lga = NoRegion
  /\ lgaData = <<>>
  /\ hotspots = <<>>
  /\ reports = <<>>
  /\ baseline = NoBaseline
  /\ radius = 0
  /\ ret = [none |-> TRUE]
  /\ clock = 0
  /\ registry = KEBBI_LGAS
  /\ cache = EmptyCache
  /\ broadcasting = FALSE
  /\ active_connections = <<>>
  /\ accepted = 0
  \* ConnectionManager.broadcast is not running
  /\ bcast = [at |-> "idle"]

\* the operations that call datetime.now()
ReadsClock(o) == o \in {"predict", "fires"}

\* the distance from p to q by each of the three implementations
Distances(p, q) ==
  [dashboard |-> Haversine(p.latitude, p.longitude, q.latitude, q.longitude),
   ml_engine |-> MlHaversine(p.latitude, p.longitude, q.latitude, q.longitude),
   geography |-> HaversineDistance(p.latitude, p.longitude, q.latitude, q.longitude)]

\* the result of operation o on the given arguments, at time now
Result(o, l, ld, hs, rs, b, rad, now) ==
  CASE o = "score" -> CalculateDynamicLgaRisk(l, hs, rs)
    [] o = "detect" -> DetectAnomalies(hs, b[1], b[2])
    [] o = "trends" -> AnalyzeTrends(rs)
    [] o = "predict" -> PredictThreats(ld, rs, hs, now)
    [] o = "cluster" -> ClusterFires(hs, rad)
    [] o = "fires" -> AnalyzeFiresForSecurity(hs, now)
    [] o = "distance" -> Distances(hs[1], hs[2])
    [] o = "spatial" -> DetectSpatialClusters(hs, rad)
    [] o = "direction" -> CalculateDirection(hs[1].latitude, hs[1].longitude,
                                             hs[2].latitude, hs[2].longitude)

Call(o, l, ld, hs, rs, b, rad, now) ==
  /\ pc' = "done"
  /\ op' = o
  /\ lga' = l
  /\ lgaData' = ld
  /\ hotspots' = hs
  /\ reports' = rs
  /\ baseline' = b
  /\ radius' = rad
  /\ ret' = Result(o, l, ld, hs, rs, b, rad, now)
  /\ clock' = now
  /\ UNCHANGED <<registry, cache, broadcasting, active_connections, bcast, accepted>>

ScoreRegion ==
  /\ pc = "idle"
  /\ \E l \in Regions, hs \in HotspotLists, rs \in SingleReportLists :
       Call("score", l, <<>>, hs, rs, NoBaseline, 0, clock)

DetectAnomaliesCall ==
  /\ pc = "idle"
  /\ \E hs \in HotspotLists, b \in Baselines :
       Call("detect", NoRegion, <<>>, hs, <<>>, b, 0, clock)

AnalyzeTrendsCall ==
  /\ pc = "idle"
  /\ \E rs \in ReportLists :
       Call("trends", NoRegion, <<>>, <<>>, rs, NoBaseline, 0, clock)

PredictThreatsCall ==
  /\ pc = "idle"
  /\ \E ld \in RegionLists, rs \in SingleReportLists, hs \in SingleHotspotLists, now \in clock..MaxClock :
       Call("predict", NoRegion, ld, hs, rs, NoBaseline, 0, now)

ClusterFiresCall ==
  /\ pc = "idle"
  /\ \E hs \in HotspotLists, rad \in Radii :
       Call("cluster", NoRegion, <<>>, hs, <<>>, NoBaseline, rad, clock)

AnalyzeFiresCall ==
  /\ pc = "idle"
  /\ \E hs \in FireLists, now \in clock..MaxClock :
       Call("fires", NoRegion, <<>>, hs, <<>>, NoBaseline, 0, now)

SpatialClustersCall ==
  /\ pc = "idle"
  /\ \E hs \in HotspotLists, thr \in Thresholds :
       Call("spatial", NoRegion, <<>>, hs, <<>>, NoBaseline, thr, clock)

HaversineCall ==
  /\ pc = "idle"
  /\ \E pq \in PointPairs :
       Call("distance", NoRegion, <<>>, <<pq[1], pq[2]>>, <<>>, NoBaseline, 0, clock)

CalculateDirectionCall ==
  /\ pc = "idle"
  /\ \E pq \in DirectionPairs :
       Call("direction", NoRegion, <<>>, <<pq[1], pq[2]>>, <<>>, NoBaseline, 0, clock)

\* the same call again, with the same arguments
Recall ==
  /\ pc = "done"
  /\ \E now \in clock..MaxClock :
       /\ ReadsClock(op) \/ now = clock
       /\ ret' = Result(op, lga, lgaData, hotspots, reports, baseline, radius, now)
       /\ clock' = now
  /\ UNCHANGED <<pc, op, lga, lgaData, hotspots, reports, baseline, radius, registry,
                 cache, broadcasting, active_connections, bcast, accepted>>

Next ==
  \/ ScoreRegion
  \/ DetectAnomaliesCall
  \/ AnalyzeTrendsCall
  \/ PredictThreatsCall
  \/ ClusterFiresCall
  \/ AnalyzeFiresCall
  \/ SpatialClustersCall
  \/ HaversineCall
  \/ CalculateDirectionCall
  \/ Recall

Spec == Init /\ [][Next]_vars

(***************************************************************************)
(* The server: services/cache.py, services/data_warmer.py and the handlers *)
(* of routers/dashboard.py.  pc is the position of the data warmer: "idle" *)
(* before startup, then "sleep", "intel", "fires" around its refresh loop. *)
(* One tick of clock is one period of that loop.  A handler has no await   *)
(* that suspends it, so a request is one step, and concurrent requests are *)
(* interleavings of such steps with each other and with the warmer.        *)
(***************************************************************************)
\* await asyncio.sleep(180): the seconds of one tick of clock
TickSeconds == 180

\* cache.get, lines 11..16; hit is FALSE where it returns None
CacheGet(c, key, now) ==
  IF c[key].present /\ (now - c[key].ts) * TickSeconds < c[key].ttl
  THEN [hit |-> TRUE, data |-> c[key].data]
  ELSE [hit |-> FALSE]

\* cache.set, lines 19..21
CacheSet(c, key, data, now, ttl) ==
  [c EXCEPT ![key] = [present |-> TRUE, data |-> data, ts |-> now, ttl |-> ttl]]

\* the three sample reports; of the regions their texts name, Zuru is in the
\* registry of the model
FALLBACK_INTEL ==
  [reports |-> <<Report(<<"S">>, Zuru, "high", "military"),
                 Report(<<"F">>, <<"F","a","k","a","i">>, "medium", "conflict"),
                 Report(<<"B">>, <<"S","h","a","n","g","a">>, "critical", "banditry")>>,
   total |-> 3,
   source |-> "warming"]

\* the dict _fetch_intel_fast returns for the reports it collected
IntelOf(rs) == [reports |-> rs, total |-> Len(rs), source |-> "multi_source_fast"]

\* the dict fetch_all_sensors returns for the hotspots it collected
FiresOf(hs) == [hotspots |-> hs, total |-> Len(hs), source |-> "firms_multi_live"]

\* the reports and the hotspots a fetch may bring
FetchedReports == {<<>>, <<Report(Zuru, Dandi, "critical", "banditry")>>}

FetchedHotspots == {<<>>, <<Hotspot(2680, 350), Hotspot(2695, 450)>>}

\* _get_cached_data without the test of total
GetCachedDataMutant(c, now) ==
  LET cached_intel == CacheGet(c, "intel_data", now)
      cached_fires == CacheGet(c, "fire_data", now)
  IN  [intel |-> IF ~cached_intel.hit THEN FALLBACK_INTEL ELSE cached_intel.data,
       fires |-> IF ~cached_fires.hit
                 THEN [hotspots |-> <<>>, total |-> 0, source |-> "fallback"]
                 ELSE cached_fires.data]

\* _get_cached_data, lines 67..79
GetCachedData(c, now) ==
  LET cached_intel == CacheGet(c, "intel_data", now)
      cached_fires == CacheGet(c, "fire_data", now)
  IN  [intel |-> IF ~cached_intel.hit \/ cached_intel.data.total = 0
                 THEN FALLBACK_INTEL ELSE cached_intel.data,
       fires |-> IF ~cached_fires.hit
                 THEN [hotspots |-> <<>>, total |-> 0, source |-> "fallback"]
                 ELSE cached_fires.data]

\* an in-place update of the registry row instead of a copy
ScoredCopyMutant(l, risk_level, risk_score) ==
  LET updated == [l EXCEPT !.risk = risk_level]
  IN  [entry |-> [keys |-> l.keys \cup {"risk_score"}, name |-> l.name, lat |-> l.lat,
                  lon |-> l.lon, risk |-> risk_level, risk_score |-> RoundDiv(risk_score, 10)],
       source |-> updated]

\* {**lga, "risk": risk_level, "risk_score": round(risk_score, 3)}: entry is
\* the new dict (risk_score in thousandths), source is lga after the
\* statement
ScoredCopy(l, risk_level, risk_score) ==
  [entry |-> [keys |-> l.keys \cup {"risk_score"}, name |-> l.name, lat |-> l.lat,
              lon |-> l.lon, risk |-> risk_level, risk_score |-> RoundDiv(risk_score, 10)],
   source |-> l]

\* the loop over KEBBI_LGAS of get_dashboard_overview, lines 107..110
DynamicLgas(reg, hs, rs) ==
  [k \in 1..Len(reg) |->
     LET r == CalculateDynamicLgaRisk(reg[k], hs, rs)
     IN  ScoredCopy(reg[k], r.label, r.score)]

\* RISK_LEVELS[risk_level]
RiskInfo(risk_level) ==
  CASE risk_level = "critical" -> [weight |-> 4, label |-> "CRITICAL"]
    [] risk_level = "high" -> [weight |-> 3, label |-> "HIGH"]
    [] risk_level = "medium" -> [weight |-> 2, label |-> "MEDIUM"]
    [] OTHER -> [weight |-> 1, label |-> "LOW"]

\* the loop over KEBBI_LGAS of get_lga_data, lines 175..182
LgaRows(reg, hs, rs) ==
  [k \in 1..Len(reg) |->
     LET r == CalculateDynamicLgaRisk(reg[k], hs, rs)
         copy == ScoredCopy(reg[k], r.label, r.score)
         risk_info == RiskInfo(r.label)
     IN  [entry |-> [keys |-> copy.entry.keys \cup {"weight", "label"},
                     weight |-> risk_info.weight, label |-> risk_info.label] @@ copy.entry,
          source |-> copy.source]]

\* _build_alerts, lines 221..238
BuildAlerts(rs, hs) ==
  [k \in 1..Min(Len(rs), 3) |->
     [type |-> "intel", severity |-> Get(rs[k], "severity", "medium"),
      title |-> Get(rs[k], "title", <<>>), at |-> <<0, 0>>]]
  \o
  [k \in 1..Min(Len(hs), 3) |->
     [type |-> "thermal",
      severity |-> IF Get(hs[k], "confidence", "none") = "high" THEN "high" ELSE "medium",
      title |-> <<>>, at |-> <<Get(hs[k], "latitude", 0), Get(hs[k], "longitude", 0)>>]]

\* overall_level and threat_score (in hundredths), lines 118..125
OverallThreat(critical_count, high_count, hotspot_count, critical_lgas, high_lgas) ==
  IF critical_count > 2 \/ critical_lgas > 3 THEN [level |-> "CRITICAL", score |-> 85]
  ELSE IF critical_count > 0 \/ high_count > 3 \/ critical_lgas > 1
  THEN [level |-> "HIGH", score |-> 65]
  ELSE IF high_count > 0 \/ hotspot_count > 5 \/ high_lgas > 2
  THEN [level |-> "ELEVATED", score |-> 45]
  ELSE [level |-> "GUARDED", score |-> 25]

\* get_dashboard_overview up to line 154: the result, and KEBBI_LGAS after
\* the loop
Overview(reg, c, now) ==
  LET data == GetCachedData(c, now)
      hs == data.fires.hotspots
      hotspot_count == data.fires.total
      rs == data.intel.reports
      intel_count == data.intel.total
      dynamic_lgas == DynamicLgas(reg, hs, rs)
      critical_count ==
        Cardinality({i \in 1..Len(rs) : Get(rs[i], "severity", "none") = "critical"})
      high_count == Cardinality({i \in 1..Len(rs) : Get(rs[i], "severity", "none") = "high"})
      critical_lgas ==
        Cardinality({k \in 1..Len(reg) : dynamic_lgas[k].entry.risk = "critical"})
      high_lgas == Cardinality({k \in 1..Len(reg) : dynamic_lgas[k].entry.risk = "high"})
      overall == OverallThreat(critical_count, high_count, hotspot_count, critical_lgas, high_lgas)
  IN  [result |->
         [timestamp |-> now,
          threat_level |-> overall.level,
          threat_score |-> overall.score,
          stats |-> [active_threats |-> critical_count + high_count + hotspot_count + critical_lgas,
                     surveillance_assets |-> 12,
                     intel_reports |-> intel_count,
                     fire_hotspots |-> hotspot_count,
                     critical_lgas |-> critical_lgas,
                     high_risk_lgas |-> high_lgas],
          recent_alerts |-> BuildAlerts(rs, hs),
          ml_insights |-> [anomalies |-> DetectAnomalies(hs, 5, 30), trends |-> AnalyzeTrends(rs)],
          source |-> "live",
          data_quality |-> [intel_source |-> IF intel_count > 0 THEN data.intel.source
                                             ELSE "RSS feeds active",
                            fire_source |-> hotspot_count]],
       registry |-> [k \in 1..Len(reg) |-> dynamic_lgas[k].source]]

\* get_lga_data from line 165 to line 196, where lga_data is not cached
LgaData(reg, c, now) ==
  LET data == GetCachedData(c, now)
      rows == LgaRows(reg, data.fires.hotspots, data.intel.reports)
      risks(level) == Cardinality({k \in 1..Len(reg) : rows[k].entry.risk = level})
  IN  [result |->
         [lgas |-> [k \in 1..Len(reg) |-> rows[k].entry],
          total |-> Len(reg),
          summary |-> [critical |-> risks("critical"), high |-> risks("high"),
                       medium |-> risks("medium"), low |-> risks("low")],
          risk_method |-> "dynamic",
          timestamp |-> now],
       registry |-> [k \in 1..Len(reg) |-> rows[k].source]]

\* get_ml_insights, lines 209..218
MlInsights(reg, c, now) ==
  LET data == GetCachedData(c, now)
  IN  [anomalies |-> DetectAnomalies(data.fires.hotspots, 5, 30),
       trends |-> AnalyzeTrends(data.intel.reports),
       predictions |-> PredictThreats(reg, data.intel.reports, data.fires.hotspots, now),
       timestamp |-> now]

\* main.py line 296: warm_all_caches has returned before a request is served
Started == pc \in {"sleep", "intel", "fires"}

\* warm_all_caches at startup: the fallback intel, replaced by the fetched
\* reports when there are some; the fetched fires, or the empty fallback
\* when the fetch fails
WarmAllCaches ==
  /\ pc = "idle"
  /\ op = "none"
  /\ \E rs \in FetchedReports, hs \in FetchedHotspots, fires_ok \in BOOLEAN :
       LET fallback == CacheSet(cache, "intel_data", FALLBACK_INTEL, clock, 300)
           intel == IF Len(rs) > 0
                    THEN CacheSet(fallback, "intel_data", IntelOf(rs), clock, 180)
                    ELSE fallback
       IN  cache' = IF fires_ok
                    THEN CacheSet(intel, "fire_data", FiresOf(hs), clock, 180)
                    ELSE CacheSet(intel, "fire_data",
                                  [hotspots |-> <<>>, total |-> 0, source |-> "warming"],
                                  clock, 60)
  /\ pc' = "sleep"
  /\ op' = "warm"
  /\ UNCHANGED <<active_connections, bcast, accepted, broadcasting, lga, lgaData,
                 hotspots, reports, baseline, radius, ret, clock, registry>>

\* background_refresh, line 171
Sleep ==
  /\ pc = "sleep"
  /\ clock < MaxClock
  /\ clock' = clock + 1
  /\ pc' = "intel"
  /\ op' = "sleep"
  /\ UNCHANGED <<active_connections, bcast, accepted, broadcasting, lga, lgaData,
                 hotspots, reports, baseline, radius, ret, registry, cache>>

\* the refresh storing whatever the fetch brought
RefreshIntelMutant ==
  /\ pc = "intel"
  /\ \E rs \in FetchedReports : cache' = CacheSet(cache, "intel_data", IntelOf(rs), clock, 180)
  /\ pc' = "fires"
  /\ op' = "refresh_intel"
  /\ UNCHANGED <<active_connections, bcast, accepted, broadcasting, lga, lgaData,
                 hotspots, reports, baseline, radius, ret, clock, registry>>

\* background_refresh, lines 176..182; a failed or empty fetch leaves the
\* cache as it is
RefreshIntel ==
  /\ pc = "intel"
  /\ \E rs \in FetchedReports :
       cache' = IF Len(rs) > 0 THEN CacheSet(cache, "intel_data", IntelOf(rs), clock, 180)
                ELSE cache
  /\ pc' = "fires"
  /\ op' = "refresh_intel"
  /\ UNCHANGED <<active_connections, bcast, accepted, broadcasting, lga, lgaData,
                 hotspots, reports, baseline, radius, ret, clock, registry>>

\* background_refresh, lines 184..191; a failed fetch leaves the cache as it is
RefreshFires ==
  /\ pc = "fires"
  /\ \E hs \in FetchedHotspots, fires_ok \in BOOLEAN :
       cache' = IF fires_ok THEN CacheSet(cache, "fire_data", FiresOf(hs), clock, 180)
                ELSE cache
  /\ pc' = "sleep"
  /\ op' = "refresh_fires"
  /\ UNCHANGED <<active_connections, bcast, accepted, broadcasting, lga, lgaData,
                 hotspots, reports, baseline, radius, ret, clock, registry>>

\* GET /api/dashboard/overview
GetDashboardOverview ==
  /\ Started
  /\ LET o == Overview(registry, cache, clock)
     IN  /\ registry' = o.registry
         /\ cache' = CacheSet(cache, "dashboard_overview", o.result, clock, 300)
         /\ ret' = o.result
  /\ op' = "overview"
  /\ UNCHANGED <<active_connections, bcast, accepted, broadcasting, pc, lga, lgaData,
                 hotspots, reports, baseline, radius, clock>>

\* GET /api/dashboard/lgas
GetLgaData ==
  /\ Started
  /\ LET cached == CacheGet(cache, "lga_data", clock)
     IN  IF cached.hit
         THEN /\ ret' = cached.data
              /\ UNCHANGED <<registry, cache>>
         ELSE LET d == LgaData(registry, cache, clock)
              IN  /\ registry' = d.registry
                  /\ cache' = CacheSet(cache, "lga_data", d.result, clock, 300)
                  /\ ret' = d.result
  /\ op' = "lgas"
  /\ UNCHANGED <<active_connections, bcast, accepted, broadcasting, pc, lga, lgaData,
                 hotspots, reports, baseline, radius, clock>>

\* GET /api/dashboard/ml-insights
GetMlInsights ==
  /\ Started
  /\ ret' = MlInsights(registry, cache, clock)
  /\ op' = "insights"
  /\ UNCHANGED <<active_connections, bcast, accepted, broadcasting, pc, lga, lgaData,
                 hotspots, reports, baseline, radius, clock, registry, cache>>

ServerNext ==
  \/ WarmAllCaches
  \/ Sleep
  \/ RefreshIntel
  \/ RefreshFires
  \/ GetDashboardOverview
  \/ GetLgaData
  \/ GetMlInsights

ServerSpec == Init /\ [][ServerNext]_vars

(***************************************************************************)
(* The writers of the cache keys intel_data and fire_data, step by step:   *)
(* the startup warming of services/data_warmer.py, its refresh loop, the   *)
(* refresh endpoint of routers/intel.py and the broadcast task of main.py, *)
(* which reads the cache, waits for its fetches and then writes.           *)
(***************************************************************************)
\* the dict fetch_security_intel returns for the reports it collected
SecurityIntelOf(rs) ==
  [reports |-> rs, total |-> Len(rs), source |-> "multi_source_kebbi_focus"]

\* _warm_intel_cache, line 78
WarmIntelFallback ==
  /\ pc = "idle"
  /\ op = "none"
  /\ cache' = CacheSet(cache, "intel_data", FALLBACK_INTEL, clock, 300)
  /\ pc' = "warm_intel"
  /\ op' = "warm_fallback"
  /\ UNCHANGED <<active_connections, bcast, accepted, broadcasting, lga, lgaData,
                 hotspots, reports, baseline, radius, ret, clock, registry>>

\* _warm_intel_cache, lines 82..91; a fetch that raises or times out brings
\* nothing
WarmIntelFetch ==
  /\ pc = "warm_intel"
  /\ \E rs \in FetchedReports :
       cache' = IF Len(rs) > 0 THEN CacheSet(cache, "intel_data", IntelOf(rs), clock, 180)
                ELSE cache
  /\ pc' = "warm_fires"
  /\ op' = "warm_intel"
  /\ UNCHANGED <<active_connections, bcast, accepted, broadcasting, lga, lgaData,
                 hotspots, reports, baseline, radius, ret, clock, registry>>

\* _warm_fire_cache, lines 128..136
WarmFireCache ==
  /\ pc = "warm_fires"
  /\ \E hs \in FetchedHotspots, fires_ok \in BOOLEAN :
       cache' = IF fires_ok
                THEN CacheSet(cache, "fire_data", FiresOf(hs), clock, 180)
                ELSE CacheSet(cache, "fire_data",
                              [hotspots |-> <<>>, total |-> 0, source |-> "warming"], clock, 60)
  /\ pc' = "sleep"
  /\ op' = "warm_fires"
  /\ UNCHANGED <<active_connections, bcast, accepted, broadcasting, lga, lgaData,
                 hotspots, reports, baseline, radius, ret, clock, registry>>

\* POST /api/intel/refresh
RefreshIntelEndpoint ==
  /\ Started
  /\ \E rs \in FetchedReports :
       IF Len(rs) > 0
       THEN /\ cache' = CacheSet(cache, "intel_data", IntelOf(rs), clock, 180)
            /\ ret' = [success |-> TRUE, data |-> IntelOf(rs)]
       ELSE /\ cache' = cache
            /\ ret' = [success |-> FALSE]
  /\ op' = "refresh"
  /\ UNCHANGED <<active_connections, bcast, accepted, broadcasting, pc, lga, lgaData,
                 hotspots, reports, baseline, radius, clock, registry>>

\* auto_intel_broadcast, lines 206..209: with one of the two entries missing
\* or expired it starts its fetches
BroadcastRead ==
  /\ Started
  /\ ~broadcasting
  /\ ~CacheGet(cache, "intel_data", clock).hit \/ ~CacheGet(cache, "fire_data", clock).hit
  /\ broadcasting' = TRUE
  /\ op' = "broadcast_read"
  /\ UNCHANGED <<active_connections, bcast, accepted, pc, lga, lgaData, hotspots, reports,
                 baseline, radius, ret, clock, registry, cache>>

\* auto_intel_broadcast, lines 213..221: both fetched dicts are stored as
\* they come; a timeout or a failed fetch stores nothing
BroadcastWrite ==
  /\ broadcasting
  /\ \E rs \in FetchedReports, hs \in FetchedHotspots, fetched \in BOOLEAN :
       cache' = IF fetched
                THEN CacheSet(CacheSet(cache, "intel_data", SecurityIntelOf(rs), clock, 90),
                              "fire_data", FiresOf(hs), clock, 90)
                ELSE cache
  /\ broadcasting' = FALSE
  /\ op' = "broadcast"
  /\ UNCHANGED <<active_connections, bcast, accepted, pc, lga, lgaData, hotspots, reports,
                 baseline, radius, ret, clock, registry>>

\* cache.invalidate() with no pattern, lines 24..28
Invalidate ==
  /\ Started
  /\ cache' = EmptyCache
  /\ op' = "invalidate"
  /\ UNCHANGED <<active_connections, bcast, accepted, broadcasting, pc, lga, lgaData,
                 hotspots, reports, baseline, radius, ret, clock, registry>>

\* a request that calls _get_cached_data
GetCachedDataCall ==
  /\ Started
  /\ ret' = GetCachedData(cache, clock)
  /\ op' = "cached_data"
  /\ UNCHANGED <<active_connections, bcast, accepted, broadcasting, pc, lga, lgaData,
                 hotspots, reports, baseline, radius, clock, registry, cache>>

CacheNext ==
  \/ WarmIntelFallback
  \/ WarmIntelFetch
  \/ WarmFireCache
  \/ Sleep
  \/ RefreshIntel
  \/ RefreshFires
  \/ RefreshIntelEndpoint
  \/ BroadcastRead
  \/ BroadcastWrite
  \/ Invalidate
  \/ GetCachedDataCall

CacheSpec == Init /\ [][CacheNext]_vars

(***************************************************************************)
(* Helpers of the properties.                                              *)
(***************************************************************************)
\* seq with x inserted behind its first n elements
InsertAt(seq, n, x) == SubSeq(seq, 1, n) \o <<x>> \o SubSeq(seq, n + 1, Len(seq))

\* seq without its i-th element
RemoveAt(seq, i) == SubSeq(seq, 1, i - 1) \o SubSeq(seq, i + 1, Len(seq))

\* the order of the risk labels
Rank(label) ==
  CASE label = "low" -> 0 [] label = "medium" -> 1 [] label = "high" -> 2 [] label = "critical" -> 3

Perms(n) == {f \in [1..n -> 1..n] : \A i, j \in 1..n : f[i] = f[j] => i = j}

(***************************************************************************)
(* C1: whenever FIRMSecurityAnalyzer._cluster_fires returns, the clusters  *)
(* it returns are a partition of the input by index: every index of the    *)
(* input list occurs in exactly one cluster, exactly once, and the cluster *)
(* sizes add up to the length of the input.  (A call that raises returns   *)
(* no clusters; when it raises is the subject of C6.)                      *)
(***************************************************************************)
C1_ClusterPartition ==
  (op = "cluster" /\ ~ret.raised) =>
    LET cs == ret.clusters
        places == UNION {{<<k, p>> : p \in 1..Len(cs[k])} : k \in 1..Len(cs)}
    IN  /\ \A i \in 1..Len(hotspots) :
             Cardinality({kp \in places : cs[kp[1]][kp[2]] = i}) = 1
        /\ \A kp \in places : cs[kp[1]][kp[2]] \in 1..Len(hotspots)
        /\ SumOver([k \in 1..Len(cs) |-> Len(cs[k])], Len(cs), 0) = Len(hotspots)

\* a call that returned several clusters, one of them with several fires
C1_Witness ==
  /\ op = "cluster"
  /\ ~ret.raised
  /\ Len(ret.clusters) >= 2
  /\ \E k \in 1..Len(ret.clusters) : Len(ret.clusters[k]) >= 2

(***************************************************************************)
(* C2: the score _calculate_dynamic_lga_risk returns lies in [0, 1.0],     *)
(* whatever the region, the hotspots and the reports are.                  *)
(***************************************************************************)
C2_ScoreBounded == op = "score" => (0 <= ret.score /\ ret.score <= 10000)

\* a call whose accumulated score exceeded 1.0 and was clamped
C2_Witness ==
  /\ op = "score"
  /\ RawScore(lga, hotspots, reports) > 10000
  /\ ret.score = 10000

(***************************************************************************)
(* C3: the label is a step function of the returned score with inclusive   *)
(* lower bounds: critical iff score >= 0.6, high iff 0.4 <= score < 0.6,   *)
(* medium iff 0.2 <= score < 0.4, low iff score < 0.2.                     *)
(***************************************************************************)
C3_LabelSteps ==
  op = "score" =>
    /\ ret.label \in {"critical", "high", "medium", "low"}
    /\ ret.label = "critical" <=> ret.score >= 6000
    /\ ret.label = "high" <=> (4000 <= ret.score /\ ret.score < 6000)
    /\ ret.label = "medium" <=> (2000 <= ret.score /\ ret.score < 4000)
    /\ ret.label = "low" <=> ret.score < 2000

\* a score exactly on the breakpoint 0.6, of a region whose score with one
\* hotspot less is exactly on the breakpoint 0.4, and with no report and no
\* hotspot exactly 0.2 or more
C3_Witness ==
  /\ op = "score"
  /\ ret.score = 6000
  /\ ret.label = "critical"
  /\ Len(hotspots) = 1
  /\ CalculateDynamicLgaRisk(lga, hotspots, <<>>) = [label |-> "high", score |-> 4000]

(***************************************************************************)
(* C4: for a fixed region the score is monotone in its inputs: one more    *)
(* hotspot (at any place of the list), a hotspot moved closer to the       *)
(* region centre, one more report, or a matching report raised in          *)
(* severity (other -> high -> critical) never lowers the score nor the     *)
(* label.                                                                  *)
(***************************************************************************)
NotLower(new, old) == new.score >= old.score /\ Rank(new.label) >= Rank(old.label)

SeverityRank(r) ==
  IF Get(r, "severity", "none") = "critical" THEN 2
  ELSE IF Get(r, "severity", "none") = "high" THEN 1 ELSE 0

C4_ScoreMonotone ==
  op = "score" =>
    /\ \A h \in HotspotSet, n \in 0..Len(hotspots) :
         NotLower(CalculateDynamicLgaRisk(lga, InsertAt(hotspots, n, h), reports), ret)
    /\ \A i \in 1..Len(hotspots), h \in HotspotSet :
         HotspotDist(lga, h) <= HotspotDist(lga, hotspots[i]) =>
           NotLower(CalculateDynamicLgaRisk(lga, [hotspots EXCEPT ![i] = h], reports), ret)
    /\ \A r \in ReportSet, n \in 0..Len(reports) :
         NotLower(CalculateDynamicLgaRisk(lga, hotspots, InsertAt(reports, n, r)), ret)
    /\ \A i \in 1..Len(reports), sev \in {"high", "critical"} :
         LET raised == [reports[i] EXCEPT !.severity = sev]
         IN  SeverityRank(raised) >= SeverityRank(reports[i]) =>
               NotLower(CalculateDynamicLgaRisk(lga, hotspots, [reports EXCEPT ![i] = raised]), ret)

\* a call with a hotspot that can move closer and a matching report that can
\* be raised, each of which raises the label
C4_Witness ==
  /\ op = "score"
  /\ \E i \in 1..Len(hotspots), h \in HotspotSet :
       /\ HotspotDist(lga, h) < HotspotDist(lga, hotspots[i])
       /\ Rank(CalculateDynamicLgaRisk(lga, [hotspots EXCEPT ![i] = h], reports).label) > Rank(ret.label)
  /\ \E i \in 1..Len(reports) :
       /\ DashboardMentions(lga, reports[i])
       /\ SeverityRank(reports[i]) = 0
       /\ Rank(CalculateDynamicLgaRisk(lga, hotspots,
                 [reports EXCEPT ![i] = [reports[i] EXCEPT !.severity = "critical"]]).label) > Rank(ret.label)

(***************************************************************************)
(* C5: with no hotspot and no report the scoring functions return their    *)
(* zero results: the region score is the static geographic adjustment      *)
(* alone (0.25 corridor, 0.15 border, 0 otherwise) with the label of that  *)
(* score, detect_anomalies reports no anomaly and score 0, analyze_trends  *)
(* reports the trend stable.                                               *)
(***************************************************************************)
C5_EmptyInputs ==
  /\ (op = "score" /\ hotspots = <<>> /\ reports = <<>>) =>
       IF lga.name \in {Fakai, Sakaba, WasaguDanko, Zuru, Shanga, KokoBesse, Yauri}
       THEN ret = [label |-> "medium", score |-> 2500]
       ELSE IF lga.name \in {Dandi, Augie, Argungu, Bagudo}
       THEN ret = [label |-> "low", score |-> 1500]
       ELSE ret = [label |-> "low", score |-> 0]
  /\ (op = "detect" /\ hotspots = <<>>) =>
       (ret.details = <<>> /\ ret.count = 0 /\ ret.score = 0 /\ ~ret.anomalies_detected)
  /\ (op = "trends" /\ reports = <<>>) => ret.trend = "stable"

\* the region risk model called on a corridor region with empty lists
C5_Witness ==
  /\ op = "score"
  /\ hotspots = <<>>
  /\ reports = <<>>
  /\ lga.name = Zuru
  /\ ret.score = 2500

(***************************************************************************)
(* C6: a hotspot record without latitude or longitude is skipped and the   *)
(* batch goes on: for a batch holding such a record the region risk model, *)
(* the threat predictor, the anomaly detector and the fire analysis        *)
(* complete without raising and return what they return on the batch       *)
(* without that record.                                                    *)
(***************************************************************************)
C6_MalformedSkipped ==
  \A i \in 1..Len(hotspots) :
    ~HasCoords(hotspots[i]) =>
      LET rest == RemoveAt(hotspots, i)
      IN  /\ op = "score" => ret = CalculateDynamicLgaRisk(lga, rest, reports)
          /\ op = "predict" => ret = PredictThreats(lgaData, reports, rest, ret.timestamp)
          /\ op = "detect" => ret = DetectAnomalies(rest, baseline[1], baseline[2])
          /\ op = "fires" => (~ret.raised /\ ret = AnalyzeFiresForSecurity(rest, clock))

(***************************************************************************)
(* C7: a scoring function called again with the same arguments, at any     *)
(* later time, returns the same value: the whole returned value depends    *)
(* on the arguments only.                                                  *)
(***************************************************************************)
C7_SameInputsSameOutput == [][(pc = "done" /\ pc' = "done") => ret' = ret]_vars

(***************************************************************************)
(* C8: predict_threats returns one record per input region, in descending  *)
(* order of composite_score, and records of equal composite_score are in   *)
(* the order of their regions in the input: the output is the input's      *)
(* records rearranged by a permutation that is decreasing in the score     *)
(* and increasing in the input position among equal scores.                *)
(***************************************************************************)
C8_SortedStable ==
  op = "predict" =>
    LET out == ret.predictions
        n == Len(lgaData)
    IN  /\ Len(out) = n
        /\ \A k \in 1..(n - 1) : out[k].composite_score >= out[k + 1].composite_score
        /\ \E f \in Perms(n) :
             /\ \A k \in 1..n : out[k] = Prediction(lgaData[f[k]], reports, hotspots)
             /\ \A k \in 1..(n - 1) :
                  out[k].composite_score = out[k + 1].composite_score => f[k] < f[k + 1]

\* two different regions of equal composite score, and a region that moved
\* ahead of one given before it
C8_Witness ==
  /\ op = "predict"
  /\ Len(lgaData) >= 2
  /\ \E k \in 1..(Len(lgaData) - 1) :
       /\ ret.predictions[k].composite_score = ret.predictions[k + 1].composite_score
       /\ ret.predictions[k].lga # ret.predictions[k + 1].lga
       /\ ret.predictions[k].lga = lgaData[k].name
       /\ ret.predictions[k + 1].lga = lgaData[k + 1].name

(***************************************************************************)
(* C9: of two regions with the same static risk, the same fire proximity,  *)
(* the same intel score and the same border membership, one in the         *)
(* southern corridor set and one not, the corridor region's composite      *)
(* before the clamp is exactly 1.3 times the other's.                      *)
(***************************************************************************)
AlikeButCorridor(a, b) ==
  /\ Get(a, "risk", "low") = Get(b, "risk", "low")
  /\ FireProximity(a, hotspots) = FireProximity(b, hotspots)
  /\ IntelScore(a, reports) = IntelScore(b, reports)
  /\ (a.name \in BorderLgas) = (b.name \in BorderLgas)
  /\ a.name \in SouthernCorridor
  /\ b.name \notin SouthernCorridor

C9_CorridorFactor ==
  op = "predict" =>
    \A i, j \in 1..Len(lgaData) :
      AlikeButCorridor(lgaData[i], lgaData[j]) =>
        10 * PreClampComposite(lgaData[i], reports, hotspots)
          = 13 * PreClampComposite(lgaData[j], reports, hotspots)

\* such a pair, with a hotspot nearby and a report that mentions both, where
\* the corridor region's composite exceeds 1.0 before the clamp
C9_Witness ==
  /\ op = "predict"
  /\ \E i, j \in 1..Len(lgaData) :
       /\ AlikeButCorridor(lgaData[i], lgaData[j])
       /\ FireProximity(lgaData[i], hotspots) > 0
       /\ IntelScore(lgaData[i], reports) > 0
       /\ PreClampComposite(lgaData[i], reports, hotspots) > 30000
       /\ \E k \in 1..Len(ret.predictions) :
            ret.predictions[k].lga = lgaData[i].name /\ ret.predictions[k].composite_score = 1000

(***************************************************************************)
(* C10: detect_anomalies emits a frequency_spike entry iff                 *)
(* z = (count - baseline_mean) / max(baseline_std, 0.1) > 2.0 strictly,    *)
(* at most one, of severity critical iff z > 3 and high otherwise; with    *)
(* the defaults (mean 5, std 3) 11 hotspots give no spike and 14 give a    *)
(* spike of severity high.                                                 *)
(***************************************************************************)
Spikes(report) == SelectSeq(report.details, LAMBDA a : a.type = "frequency_spike")

C10_SpikeThreshold ==
  (op = "detect" /\ hotspots # <<>>) =>
    LET count == Len(hotspots)
        excess == (count - baseline[1]) * 10
        floor == IF baseline[2] < 1 THEN 1 ELSE baseline[2]
        spikes == Spikes(ret)
    IN  /\ Len(spikes) <= 1
        /\ Len(spikes) = 1 <=> excess > 2 * floor
        /\ Len(spikes) = 1 => (spikes[1].severity = "critical" <=> excess > 3 * floor)
        /\ Len(spikes) = 1 => spikes[1].severity \in {"critical", "high"}
        /\ (baseline = <<5, 30>> /\ count = 11) => Len(spikes) = 0
        /\ (baseline = <<5, 30>> /\ count = 14) => (Len(spikes) = 1 /\ spikes[1].severity = "high")

\* the defaults with exactly 14 hotspots: z is exactly 3.0
C10_Witness ==
  /\ op = "detect"
  /\ baseline = <<5, 30>>
  /\ Len(hotspots) = 14
  /\ Len(Spikes(ret)) = 1
  /\ Spikes(ret)[1].severity = "high"

(***************************************************************************)
(* C11: for every report list, the empty one included, analyze_trends      *)
(* labels threat_ratio = (4*critical + 3*high) / max(total, 1) as          *)
(* escalating if > 2.0, elevated if > 1.0, moderate if > 0.5 and stable    *)
(* otherwise, with direction up for escalating and elevated, stable for    *)
(* moderate and down for stable.                                           *)
(***************************************************************************)
C11_TrendLabels ==
  op = "trends" =>
    LET critical == Cardinality({i \in 1..Len(reports) : reports[i].severity = "critical"})
        high == Cardinality({i \in 1..Len(reports) : reports[i].severity = "high"})
        num == 4 * critical + 3 * high
        den == IF Len(reports) > 1 THEN Len(reports) ELSE 1
    IN  /\ ret.trend = (IF num > 2 * den THEN "escalating"
                        ELSE IF num > den THEN "elevated"
                        ELSE IF 2 * num > den THEN "moderate"
                        ELSE "stable")
        /\ ret.direction = (IF ret.trend \in {"escalating", "elevated"} THEN "up"
                            ELSE IF ret.trend = "moderate" THEN "stable"
                            ELSE "down")

(***************************************************************************)
(* C12: the fire classifier never drops a cluster: for a non-empty fire    *)
(* list that the clustering step turns into clusters,                      *)
(* analyze_fires_for_security returns one indicator per cluster, in        *)
(* order, and a cluster matching none of the mining, arson and camp rules  *)
(* gets an indicator of type unknown_fire with confidence low.             *)
(***************************************************************************)
C12_NoClusterDropped ==
  (op = "fires" /\ hotspots # <<>> /\ ~ClusterFires(hotspots, Km(2)).raised) =>
    LET cs == ClusterFires(hotspots, Km(2)).clusters
    IN  /\ ~ret.raised
        /\ Len(ret.indicators) = Len(cs)
        /\ \A k \in 1..Len(cs) :
             LET n == Len(cs[k])
                 sumB == ClusterSum(hotspots, cs[k], "brightness")
             IN  /\ ret.indicators[k].fire_count = n
                 /\ (~IsMining(n, sumB) /\ ~IsArson(n, sumB) /\ ~IsCamp(n, sumB)) =>
                      (ret.indicators[k].indicator_type = "unknown_fire"
                         /\ ret.indicators[k].confidence = "low")

(***************************************************************************)
(* C13, as stated: the mining, arson and camp conditions are pairwise      *)
(* mutually exclusive: no cluster (size, average brightness) satisfies     *)
(* more than one of them.                                                  *)
(***************************************************************************)
ClusterSizes == [k \in 1..Len(ClusterFires(hotspots, Km(2)).clusters) |->
                   Len(ClusterFires(hotspots, Km(2)).clusters[k])]

ClusterBrightness == [k \in 1..Len(ClusterFires(hotspots, Km(2)).clusters) |->
                        ClusterSum(hotspots, ClusterFires(hotspots, Km(2)).clusters[k], "brightness")]

C13_ConditionsExclusive ==
  (op = "fires" /\ ~ret.raised) =>
    \A k \in 1..Len(ret.indicators) :
      LET n == ClusterSizes[k]
          sumB == ClusterBrightness[k]
          mining == n >= 3 /\ 400 * n <= sumB /\ sumB <= 600 * n
          arson == sumB > 500 * n /\ n <= 3
          camp == n >= 2 /\ 300 * n <= sumB /\ sumB < 400 * n
      IN  ~(mining /\ arson) /\ ~(mining /\ camp) /\ ~(arson /\ camp)

(***************************************************************************)
(* C13, amended: the camp condition excludes the other two, but mining     *)
(* and arson hold together exactly for a cluster of size 3 with            *)
(* 500 < average brightness <= 600; the classifier tests mining first, so  *)
(* a cluster is mining iff the mining condition holds, arson iff the       *)
(* arson condition holds and the mining one does not, camp iff the camp    *)
(* condition holds, and unknown_fire otherwise.                            *)
(***************************************************************************)
C13_MiningBeforeArson ==
  (op = "fires" /\ ~ret.raised) =>
    \A k \in 1..Len(ret.indicators) :
      LET n == ClusterSizes[k]
          sumB == ClusterBrightness[k]
          mining == n >= 3 /\ 400 * n <= sumB /\ sumB <= 600 * n
          arson == sumB > 500 * n /\ n <= 3
          camp == n >= 2 /\ 300 * n <= sumB /\ sumB < 400 * n
          type == ret.indicators[k].indicator_type
      IN  /\ ~(mining /\ camp) /\ ~(arson /\ camp)
          /\ (mining /\ arson) <=> (n = 3 /\ 500 * n < sumB /\ sumB <= 600 * n)
          /\ type = "suspected_illegal_mining" <=> mining
          /\ type = "suspected_arson_evidence_burning" <=> (arson /\ ~mining)
          /\ type = "suspected_bandit_camp" <=> camp
          /\ type = "unknown_fire" <=> (~mining /\ ~arson /\ ~camp)

\* a cluster of three fires of average brightness 550 K: both conditions hold
\* and the indicator is the mining one
C13_Witness ==
  /\ op = "fires"
  /\ ~ret.raised
  /\ \E k \in 1..Len(ret.indicators) :
       /\ ClusterSizes[k] = 3
       /\ ClusterBrightness[k] > 500 * 3
       /\ ClusterBrightness[k] <= 600 * 3
       /\ ret.indicators[k].indicator_type = "suspected_illegal_mining"

ClaimedBaseRisk(l) ==
  CASE l.risk = "critical" -> 100 [] l.risk = "high" -> 75
    [] l.risk = "medium" -> 50 [] l.risk = "low" -> 25

ClaimedComposite(l) ==
  LET sum == ClaimedBaseRisk(l) * 120 + FireProximity(l, hotspots) * 100
               + IntelScore(l, reports) * 1200 + 6000
      product == (sum * BorderMultiplier(l) * CorridorMultiplier(l)) \div 100
  IN  IF product > 30000 THEN 30000 ELSE product

ClaimedLevel(c) ==
  CASE c > 22500 -> "critical"
    [] 16500 < c /\ c <= 22500 -> "high"
    [] 10500 < c /\ c <= 16500 -> "medium"
    [] c <= 10500 -> "low"

C16_CompositeAndLevel ==
  op = "predict" =>
    \A i \in 1..Len(lgaData) :
      \E k \in 1..Len(ret.predictions) :
        /\ ret.predictions[k].lga = lgaData[i].name
        /\ ret.predictions[k].composite_score = RoundDiv(ClaimedComposite(lgaData[i]), 30)
        /\ ret.predictions[k].predicted_risk = ClaimedLevel(ClaimedComposite(lgaData[i]))
        /\ ret.predictions[k].factors.base_risk = ClaimedBaseRisk(lgaData[i])

\* one region whose composite is exactly 0.75 and is labelled high, and one
\* whose composite is exactly 0.35 and is labelled low
C16_Witness ==
  /\ op = "predict"
  /\ \E i, j \in 1..Len(lgaData), k, m \in 1..Len(ret.predictions) :
       /\ ClaimedComposite(lgaData[i]) = 22500
       /\ ret.predictions[k].lga = lgaData[i].name
       /\ ret.predictions[k].predicted_risk = "high"
       /\ ClaimedComposite(lgaData[j]) = 10500
       /\ ret.predictions[m].lga = lgaData[j].name
       /\ ret.predictions[m].predicted_risk = "low"

(***************************************************************************)
(* C17: the static geographic adjustment of scoreRegion is applied at      *)
(* most once: +0.25 for a region of the southern set, otherwise +0.15 for  *)
(* a region of the border set, and nothing (and no error) for a region of  *)
(* neither set, a name unknown to both included; no region gets both       *)
(* (+0.40).  The returned score is the clamped sum of the data-driven      *)
(* terms and that one adjustment.                                          *)
(***************************************************************************)
DataTerms == FireDecaySum(lga, hotspots, Len(hotspots)) + DensityBonus(lga, hotspots)
               + ReportSum(lga, reports, Len(reports))

ClaimedAdjustment ==
  IF lga.name \in {Fakai, Sakaba, WasaguDanko, Zuru, Shanga, KokoBesse, Yauri} THEN 2500
  ELSE IF lga.name \in {Dandi, Augie, Argungu, Bagudo} THEN 1500
  ELSE 0

C17_OneAdjustment ==
  op = "score" =>
    /\ ret.score = (IF DataTerms + ClaimedAdjustment > 10000 THEN 10000
                    ELSE DataTerms + ClaimedAdjustment)
    /\ ret.score <= DataTerms + 2500
    /\ ret.label \in {"low", "medium", "high", "critical"}

\* a region whose name contains a border name but is in neither set, scored
\* on data that contribute: it gets no adjustment
C17_Witness ==
  /\ op = "score"
  /\ lga.name = ArewaDandi
  /\ DataTerms > 0
  /\ DataTerms < 10000
  /\ ret.score = DataTerms

(***************************************************************************)
(* C18: clustering is greedy and seed-based, in _cluster_fires and in      *)
(* _detect_spatial_clusters: the seed of each cluster is the first point   *)
(* of the input not in an earlier cluster, and its members are the seed    *)
(* and exactly the points not in an earlier cluster that are within the    *)
(* radius of the seed.  Hence every member is within the radius of the     *)
(* first member, and a point near a non-seed member only is not absorbed.  *)
(***************************************************************************)
LatOf(i) == IF "latitude" \in hotspots[i].keys THEN hotspots[i].latitude ELSE 0

\* the points before the k-th group of a list of groups of indices
EarlierMembers(groups, k) == UNION {groups[m] : m \in 1..(k - 1)}

\* the test of a point j against a seed i: within the radius, inclusively
\* in _cluster_fires and strictly in _detect_spatial_clusters
NearSeed(i, j, strict) ==
  IF strict THEN Abs(LatOf(i) - LatOf(j)) < radius ELSE Abs(LatOf(i) - LatOf(j)) <= radius

\* groups is the greedy seed-based grouping of the input
IsGreedy(groups, strict) ==
  /\ UNION {groups[k] : k \in 1..Len(groups)} = 1..Len(hotspots)
  /\ \A k \in 1..Len(groups) :
       LET free == (1..Len(hotspots)) \ EarlierMembers(groups, k)
           seed == CHOOSE i \in free : \A j \in free : i <= j
       IN  groups[k] = {seed} \cup {j \in free : j # seed /\ NearSeed(seed, j, strict)}

C18_GreedySeeded ==
  /\ (op = "cluster" /\ ~ret.raised) =>
       /\ IsGreedy([k \in 1..Len(ret.clusters) |-> Range(ret.clusters[k])], FALSE)
       /\ \A k \in 1..Len(ret.clusters) : \A m \in 1..Len(ret.clusters[k]) :
            /\ ret.clusters[k][1] <= ret.clusters[k][m]
            /\ m > 1 => Abs(LatOf(ret.clusters[k][1]) - LatOf(ret.clusters[k][m])) <= radius
  /\ op = "spatial" =>
       LET groups == SpatialGroups(hotspots, radius, 1, {})
           kept == SelectSeq(groups, LAMBDA g : Cardinality(g) >= 2)
       IN  /\ IsGreedy(groups, TRUE)
           /\ Len(ret) = Len(kept)
           /\ \A k \in 1..Len(kept) : ret[k].size = Cardinality(kept[k])

\* three fires in a row, the third within the radius of the second but not
\* of the first (the seed): it is left to a cluster of its own, and another
\* order of the same input gives another number of clusters
C18_Witness ==
  /\ op = "cluster"
  /\ ~ret.raised
  /\ Len(hotspots) = 3
  /\ ret.clusters = <<(<<1, 2>>), (<<3>>)>>
  /\ Abs(LatOf(2) - LatOf(3)) <= radius
  /\ Abs(LatOf(1) - LatOf(3)) > radius
  /\ \E f \in Perms(3) :
       Len(ClusterFires([i \in 1..3 |-> hotspots[f[i]]], radius).clusters) # Len(ret.clusters)

(***************************************************************************)
(* C19: the overall score of the report of detect_anomalies equals the     *)
(* maximum of the scores of its entries and is 0 when it has none; it is   *)
(* in [0, 1]; anomalies_detected is true iff the entry count is > 0 iff    *)
(* the overall score is > 0.  Entry scores are in 1/600 and the overall    *)
(* score in 1/1000 here.                                                   *)
(***************************************************************************)
EntryScores == {ret.details[k].score : k \in 1..Len(ret.details)}

C19_ScoreInRange ==
  op = "detect" =>
    /\ 0 <= ret.score /\ ret.score <= 1000
    /\ ret.anomalies_detected <=> ret.count > 0
    /\ ret.count > 0 <=> ret.score > 0
    /\ ret.count = Len(ret.details)

C19_OverallScoreIsMax ==
  op = "detect" =>
    /\ C19_ScoreInRange
    /\ EntryScores = {} => ret.score = 0
    /\ EntryScores # {} =>
         \E s \in EntryScores : /\ \A t \in EntryScores : t <= s
                                /\ ret.score * 600 = s * 1000

(***************************************************************************)
(* C20: detect_anomalies emits exactly one spatial_cluster entry for each  *)
(* cluster of size >= 3 that clustering the hotspots with a 15 km radius   *)
(* finds, in the order of the clusters, and none for a smaller cluster;    *)
(* the entry's severity is high iff the size is >= 5 and medium            *)
(* otherwise, and its score is min(size/10, 1.0) (in 1/600 here).          *)
(***************************************************************************)
SpatialEntriesOf(report) == SelectSeq(report.details, LAMBDA a : a.type = "spatial_cluster")

ClustersOfThree == SelectSeq(DetectSpatialClusters(hotspots, Km(15)), LAMBDA c : c.size >= 3)

C20_SpatialEntries ==
  (op = "detect" /\ hotspots # <<>>) =>
    LET entries == SpatialEntriesOf(ret)
    IN  /\ Len(entries) = Len(ClustersOfThree)
        /\ \A k \in 1..Len(entries) :
             LET size == ClustersOfThree[k].size
             IN  /\ entries[k].size = size
                 /\ entries[k].severity = (IF size >= 5 THEN "high" ELSE "medium")
                 /\ entries[k].score = (IF size * 60 > 600 THEN 600 ELSE size * 60)

\* a burst of 14 hotspots at one place: one entry, high, its score clamped to
\* 1.0
C20_Witness ==
  /\ op = "detect"
  /\ Len(hotspots) = 14
  /\ Len(SpatialEntriesOf(ret)) = 1
  /\ SpatialEntriesOf(ret)[1].severity = "high"
  /\ SpatialEntriesOf(ret)[1].score = 600


(***************************************************************************)
(* C14: the scoring operations and the endpoints built on them             *)
(* (get_dashboard_overview, get_lga_data, get_ml_insights) leave their     *)
(* inputs as they found them: no step of the server changes the registry   *)
(* KEBBI_LGAS, so that the static risk of every region stays its           *)
(* configured value, and no request changes the cached hotspot and report  *)
(* lists it reads, in any interleaving of requests with each other and     *)
(* with the data warmer.                                                   *)
(***************************************************************************)
C14_InputsUnchanged ==
  [][/\ registry' = registry
     /\ registry' = KEBBI_LGAS
     /\ op' \in {"overview", "lgas", "insights"} =>
          /\ cache'["intel_data"] = cache["intel_data"]
          /\ cache'["fire_data"] = cache["fire_data"]]_vars

\* a request for the regions answered from live cached hotspots, with a
\* dynamic risk that differs from the configured risk of the region, which
\* the registry still holds
C14_Witness ==
  /\ op = "lgas"
  /\ ret.timestamp = clock
  /\ CacheGet(cache, "fire_data", clock).hit
  /\ Len(cache["fire_data"].data.hotspots) > 0
  /\ \E k \in 1..Len(registry) :
       /\ ret.lgas[k].name = registry[k].name
       /\ ret.lgas[k].risk # registry[k].risk
       /\ registry[k].risk = KEBBI_LGAS[k].risk

(***************************************************************************)
(* C21: in every prediction record the direction is up iff the weight of   *)
(* the predicted label exceeds the weight of the region's static risk,     *)
(* down iff it is below, flat iff they are equal; escalating_lgas holds    *)
(* exactly the records with direction up and de_escalating_lgas exactly    *)
(* those with direction down, in the order of the predictions, so no       *)
(* record is in both.                                                      *)
(***************************************************************************)
LabelWeight(label) ==
  CASE label = "critical" -> 4 [] label = "high" -> 3 [] label = "medium" -> 2 [] OTHER -> 1

WithDirection(ps, d) == SelectSeq(ps, LAMBDA p : p.risk_change = d)

C21_Direction ==
  op = "predict" =>
    /\ \A k \in 1..Len(ret.predictions) :
         LET p == ret.predictions[k]
             w == LabelWeight(p.predicted_risk)
             b == LabelWeight(p.current_risk)
         IN  /\ p.risk_change = "up" <=> w > b
             /\ p.risk_change = "down" <=> w < b
             /\ p.risk_change = "flat" <=> w = b
    /\ ret.escalating_lgas = WithDirection(ret.predictions, "up")
    /\ ret.de_escalating_lgas = WithDirection(ret.predictions, "down")
    /\ \A i \in 1..Len(ret.escalating_lgas), j \in 1..Len(ret.de_escalating_lgas) :
         ret.escalating_lgas[i] # ret.de_escalating_lgas[j]

\* one call that reports a region up and another region down
C21_Witness ==
  /\ op = "predict"
  /\ Len(ret.escalating_lgas) = 1
  /\ Len(ret.de_escalating_lgas) = 1
  /\ Len(ret.predictions) = 2

(***************************************************************************)
(* C22: calculate_direction is total over the eight compass sectors: the   *)
(* angle from the first point to the second lies in exactly one sector of  *)
(* 45 degrees centred on a compass direction, closed at its lower and open *)
(* at its upper boundary, and the result is the name of that sector, never *)
(* "unknown"; this includes an angle of exactly 180 and of exactly -180    *)
(* degrees, an angle on a sector boundary, and two identical points.       *)
(***************************************************************************)
CompassNames ==
  <<"north", "northeast", "east", "southeast", "south", "southwest", "west", "northwest">>

\* angle (in half degrees) lies in the k-th sector, counted clockwise from
\* north
InSector(angle, k) == (angle - 90 * (k - 1) + 45) % 720 < 90

C22_DirectionTotal ==
  op = "direction" =>
    LET angle == DirectionAngle(hotspots[1].latitude, hotspots[1].longitude,
                                hotspots[2].latitude, hotspots[2].longitude)
    IN  /\ Cardinality({k \in 1..8 : InSector(angle, k)}) = 1
        /\ \A k \in 1..8 : InSector(angle, k) => ret = CompassNames[k]
        /\ ret # "unknown"

\* a second point due south of the first: the angle is exactly 180 degrees
C22_Witness ==
  /\ op = "direction"
  /\ DirectionAngle(hotspots[1].latitude, hotspots[1].longitude,
                    hotspots[2].latitude, hotspots[2].longitude) = 360
  /\ ret = "south"

(***************************************************************************)
(* C23: in _calculate_dynamic_lga_risk the hotspot contributions add up:   *)
(* every hotspot strictly closer than 30 km to the region centre adds      *)
(* (30 - dist)/30 * 0.15, and when 3 or more hotspots are within 30 km a   *)
(* flat 0.20 is added once, on top of the decay terms; with fewer than 3   *)
(* nearby hotspots it is not added.  One hotspot at distance 0, with no    *)
(* report and no geographic bonus, gives score 0.15 and label low.         *)
(***************************************************************************)
\* the claimed contribution of the hotspots, in 1/10000
ClaimedFireTerms(l, hs) ==
  LET near == {i \in 1..Len(hs) : HotspotDist(l, hs[i]) < Km(30)}
      term(i) == IF i \in near THEN ((Km(30) - HotspotDist(l, hs[i])) * 1500) \div Km(30) ELSE 0
  IN  SumOver([i \in 1..Len(hs) |-> term(i)], Len(hs), 0)
        + (IF Cardinality(near) >= 3 THEN 2000 ELSE 0)

C23_HotspotsCumulative ==
  op = "score" =>
    /\ ret.score = Min(10000, ClaimedFireTerms(lga, hotspots)
                                + ReportSum(lga, reports, Len(reports)) + GeoAdjust(lga))
    /\ (/\ Len(hotspots) = 1
        /\ HotspotDist(lga, hotspots[1]) = 0
        /\ Len(reports) = 0
        /\ GeoAdjust(lga) = 0) => (ret.score = 1500 /\ ret.label = "low")

\* three hotspots within 30 km at different distances, none at the centre:
\* three decay terms and the flat bonus, below the clamp
C23_Witness ==
  /\ op = "score"
  /\ Len(hotspots) = 3
  /\ NearbyFires(lga, hotspots) = 3
  /\ \E i, j \in 1..3 : HotspotDist(lga, hotspots[i]) # HotspotDist(lga, hotspots[j])
  /\ ret.score = ClaimedFireTerms(lga, hotspots) + GeoAdjust(lga)
  /\ ret.score > 2000 + GeoAdjust(lga)
  /\ ret.score < 10000

(***************************************************************************)
(* C24: _get_cached_data always returns data.  Whatever the cache holds    *)
(* when it is called (a key never set or invalidated, an expired entry, an *)
(* intel entry whose total is 0), and however the warmer, the refresh      *)
(* endpoint and the broadcast task have written the cache, it returns an   *)
(* intel value with total > 0, which is the cached one or FALLBACK_INTEL,  *)
(* and a fire value that is a dict with a hotspot list; it does not raise. *)
(* The same holds of a call made in any reachable state.                   *)
(***************************************************************************)
HasData(d) ==
  /\ d.intel.total > 0
  /\ d.intel = FALLBACK_INTEL \/ d.intel.reports \in FetchedReports
  /\ d.fires.total = Len(d.fires.hotspots)

C24_AlwaysData ==
  /\ op = "cached_data" => HasData(ret)
  /\ HasData(GetCachedData(cache, clock))

\* a call that found a live intel entry with total 0, stored by the
\* broadcast task, and returned the fallback intel with the cached fires
C24_Witness ==
  /\ op = "cached_data"
  /\ CacheGet(cache, "intel_data", clock).hit
  /\ cache["intel_data"].data.total = 0
  /\ CacheGet(cache, "fire_data", clock).hit
  /\ ret.intel = FALLBACK_INTEL
  /\ ret.fires = cache["fire_data"].data

(***************************************************************************)
(* C25: intel cache warming is fallback-first and never degrades to empty. *)
(* While _warm_intel_cache waits for its fetch, intel_data already holds   *)
(* FALLBACK_INTEL; and a step of _warm_intel_cache, of background_refresh  *)
(* or of refresh_intel either leaves the intel_data entry as it was or     *)
(* replaces it by a fetched result whose total is > 0.                     *)
(***************************************************************************)
C25_FallbackFirst ==
  /\ [](pc = "warm_intel" =>
          /\ cache["intel_data"].present
          /\ cache["intel_data"].data = FALLBACK_INTEL)
  /\ [][op' \in {"warm_intel", "refresh_intel", "refresh"} =>
          \/ cache'["intel_data"] = cache["intel_data"]
          \/ /\ cache'["intel_data"].present
             /\ cache'["intel_data"].data.total > 0
             /\ cache'["intel_data"].data.reports \in FetchedReports]_vars

\* a refresh request whose fetch came back empty, after the warming fetch
\* and the first background refresh had come back empty too: intel_data
\* still holds the fallback written at startup
C25_Witness ==
  /\ op = "refresh"
  /\ ~ret.success
  /\ clock > 0
  /\ cache["intel_data"].present
  /\ cache["intel_data"].data = FALLBACK_INTEL
  /\ cache["intel_data"].ts = 0

(***************************************************************************)
(* C26: the southern-corridor set and the border set are the same in       *)
(* _calculate_dynamic_lga_risk and in predict_threats: a region of the     *)
(* registry gets the corridor bonus (+0.25) of the former iff it gets the  *)
(* corridor multiplier 1.3 of the latter, and is treated as a border       *)
(* region (+0.15) by the former iff it gets the border multiplier 1.2 of   *)
(* the latter.                                                             *)
(***************************************************************************)
C26_SameSets ==
  (op = "score" /\ \E k \in 1..Len(KEBBI_LGAS) : KEBBI_LGAS[k] = lga) =>
    /\ GeoAdjust(lga) = 2500 <=> CorridorMultiplier(lga) = 13
    /\ GeoAdjust(lga) = 1500 <=> BorderMultiplier(lga) = 12

(***************************************************************************)
(* C27: a report counts as mentioning a region in the same way in both     *)
(* models: for every report and every region name, the report matches the  *)
(* region in _calculate_dynamic_lga_risk iff predict_threats counts it in  *)
(* lga_mentions, also when the name occurs only across the boundary        *)
(* between title and description.                                          *)
(***************************************************************************)
C27_SameMentions ==
  op = "score" =>
    \A i \in 1..Len(reports), l \in Regions :
      DashboardMentions(l, reports[i]) <=> PredictorMentions(l, reports[i])

\* where a name lies within the title or within the description of a
\* report, both models match it, a name that contains another one included
C27_WithinOneField ==
  op = "score" =>
    \A i \in 1..Len(reports), l \in Regions :
      (\/ Contains(Lower(l.name), Lower(Get(reports[i], "title", <<>>)))
       \/ Contains(Lower(l.name), Lower(Get(reports[i], "description", <<>>))))
        => (DashboardMentions(l, reports[i]) /\ PredictorMentions(l, reports[i]))

(***************************************************************************)
(* C28: _detect_spatial_clusters returns only clusters of size >= 2.  A    *)
(* hotspot that is taken as a seed and finds no other unvisited hotspot    *)
(* strictly within the threshold is in no returned cluster; every hotspot  *)
(* is counted in at most one returned cluster; the returned sizes add up   *)
(* to the number of input hotspots less the seeds that stayed alone, so to *)
(* at most the number of input hotspots, with equality only when no seed   *)
(* stays alone.                                                            *)
(***************************************************************************)
\* the seeds with no other unvisited hotspot strictly within the threshold,
\* when the seeds are taken in input order
LoneSeeds ==
  LET groups == SpatialGroups(hotspots, radius, 1, {})
  IN  {i \in 1..Len(hotspots) :
         \E k \in 1..Len(groups) :
           /\ groups[k] = {i}
           /\ \A j \in (1..Len(hotspots)) \ (EarlierMembers(groups, k) \cup {i}) :
                ~(HotspotPairDist(hotspots[i], hotspots[j]) < radius)}

ReturnedSizes == SumOver([k \in 1..Len(ret) |-> ret[k].size], Len(ret), 0)

C28_NoSingletons ==
  op = "spatial" =>
    LET groups == SpatialGroups(hotspots, radius, 1, {})
        kept == SelectSeq(groups, LAMBDA g : Cardinality(g) >= 2)
    IN  /\ \A k \in 1..Len(ret) : ret[k].size >= 2
        /\ Len(ret) = Len(kept)
        /\ \A k \in 1..Len(kept) : ret[k].size = Cardinality(kept[k]) /\ kept[k] \cap LoneSeeds = {}
        /\ \A k, m \in 1..Len(kept) : k # m => kept[k] \cap kept[m] = {}
        /\ ReturnedSizes = Len(hotspots) - Cardinality(LoneSeeds)
        /\ ReturnedSizes <= Len(hotspots)
        /\ ReturnedSizes = Len(hotspots) <=> LoneSeeds = {}

\* three hotspots, two of them close: one cluster of two is returned and the
\* third hotspot, a seed that stayed alone, is in none
C28_Witness ==
  /\ op = "spatial"
  /\ Len(hotspots) = 3
  /\ Len(ret) = 1
  /\ ret[1].size = 2
  /\ Cardinality(LoneSeeds) = 1

(***************************************************************************)
(* C29: in predict_threats the composite score of every region is at least *)
(* 0.3; a region whose static risk is critical has composite >= 0.6 and a  *)
(* predicted label of high or critical, whatever the hotspots and reports  *)
(* are.  So a static-critical region never has direction up, a static-low  *)
(* region never has direction down, and a static-critical region outside   *)
(* the border and the corridor set, with no hotspot within 30 km and no    *)
(* mention, is reported with direction down.                               *)
(***************************************************************************)
\* the region of lga_data a prediction record was made for
RegionOf(p) == CHOOSE l \in Range(lgaData) : l.name = p.lga

C29_CompositeFloor ==
  op = "predict" =>
    \A k \in 1..Len(ret.predictions) :
      LET p == ret.predictions[k]
          l == RegionOf(p)
      IN  /\ p.composite_score >= 300
          /\ Composite(l, reports, hotspots) >= 9000
          /\ l.risk = "critical" =>
               /\ p.composite_score >= 600
               /\ p.predicted_risk \in {"high", "critical"}
               /\ p.risk_change # "up"
          /\ l.risk = "low" => p.risk_change # "down"
          /\ (/\ l.risk = "critical"
              /\ l.name \notin BorderLgas
              /\ l.name \notin SouthernCorridor
              /\ \A i \in 1..Len(hotspots) : ~(PredictorDist(l, hotspots[i]) < Km(30))
              /\ \A i \in 1..Len(reports) : ~PredictorMentions(l, reports[i]))
               => (p.risk_change = "down" /\ p.predicted_risk = "high")

\* one call with a static-critical region outside both sets, a hotspot more
\* than 30 km away and a report that does not mention it, reported down at
\* composite 0.6, and a static-low region at the floor of 0.3
C29_Witness ==
  /\ op = "predict"
  /\ Len(hotspots) = 1
  /\ Len(reports) = 1
  /\ \E i, j \in 1..Len(ret.predictions) :
       /\ ret.predictions[i].current_risk = "critical"
       /\ ret.predictions[i].composite_score = 600
       /\ ret.predictions[i].risk_change = "down"
       /\ ret.predictions[j].current_risk = "low"
       /\ ret.predictions[j].composite_score = 300
       /\ ret.predictions[j].risk_change = "flat"

(***************************************************************************)
(* main.py ConnectionManager and the tasks that use it.  A websocket is a  *)
(* number, given in the order of acceptance.  bcast is the frame of a      *)
(* running broadcast: index is the position of the list iterator (the      *)
(* number of items it has handed out), connection the websocket whose      *)
(* send_json is awaited, disconnected the local list of line 166.  sent    *)
(* and stayed are history: the websockets whose send returned, and those   *)
(* that were in active_connections when the broadcast began and have not   *)
(* been removed since.                                                     *)
(***************************************************************************)
\* list.remove(ws) under the test of line 162
Remove(list, ws) ==
  IF ws \in Range(list)
  THEN RemoveAt(list, CHOOSE i \in 1..Len(list) :
                        list[i] = ws /\ \A j \in 1..(i - 1) : list[j] # ws)
  ELSE list

RECURSIVE RemoveAll(_, _)
\* lines 172..173
RemoveAll(list, disc) ==
  IF disc = <<>> THEN list ELSE RemoveAll(Remove(list, disc[1]), Tail(disc))

\* the for statement of line 167 asking its iterator for the next item: the
\* item at position index of the list as it is now, or the end of the loop
\* and lines 172..173
Advance(list, b) ==
  IF b.index < Len(list)
  THEN [list |-> list,
        bcast |-> [b EXCEPT !.at = "send", !.index = b.index + 1,
                            !.connection = list[b.index + 1]]]
  ELSE [list |-> RemoveAll(list, b.disconnected),
        bcast |-> [b EXCEPT !.at = "done", !.connection = 0]]

\* websocket_endpoint, line 181: connect accepts the websocket and appends it
Connect ==
  /\ accepted < MaxConnections
  /\ accepted' = accepted + 1
  /\ active_connections' = Append(active_connections, accepted + 1)
  /\ UNCHANGED <<bcast, pc, op, lga, lgaData, hotspots, reports, baseline, radius, ret,
                 clock, registry, cache, broadcasting>>

\* websocket_endpoint, lines 190..191: the client of ws has gone
Disconnect ==
  /\ \E ws \in Range(active_connections) :
       /\ active_connections' = Remove(active_connections, ws)
       /\ bcast' = IF bcast.at = "send" THEN [bcast EXCEPT !.stayed = @ \ {ws}] ELSE bcast
  /\ UNCHANGED <<accepted, pc, op, lga, lgaData, hotspots, reports, baseline, radius, ret,
                 clock, registry, cache, broadcasting>>

\* a task calls manager.broadcast: lines 166..169 up to the first await
BroadcastBegin ==
  /\ bcast.at \in {"idle", "done"}
  /\ LET next == Advance(active_connections,
                         [at |-> "begin", index |-> 0, connection |-> 0, disconnected |-> <<>>,
                          sent |-> <<>>, stayed |-> Range(active_connections)])
     IN  /\ active_connections' = next.list
         /\ bcast' = next.bcast
  /\ UNCHANGED <<accepted, pc, op, lga, lgaData, hotspots, reports, baseline, radius, ret,
                 clock, registry, cache, broadcasting>>

\* the awaited send_json returns or raises (lines 169..171), and broadcast
\* runs on to its next await or to its end
SendReturns ==
  /\ bcast.at = "send"
  /\ \E raised \in BOOLEAN :
       LET b == IF raised
                THEN [bcast EXCEPT !.disconnected = Append(@, bcast.connection)]
                ELSE [bcast EXCEPT !.sent = Append(@, bcast.connection)]
           next == Advance(active_connections, b)
       IN  /\ active_connections' = next.list
           /\ bcast' = next.bcast
  /\ UNCHANGED <<accepted, pc, op, lga, lgaData, hotspots, reports, baseline, radius, ret,
                 clock, registry, cache, broadcasting>>

WsNext ==
  \/ Connect
  \/ Disconnect
  \/ BroadcastBegin
  \/ SendReturns

WsSpec == Init /\ [][WsNext]_vars

(***************************************************************************)
(* C30: ConnectionManager.broadcast delivers the message to every          *)
(* connection that stays in active_connections for the whole duration of   *)
(* the broadcast, in every interleaving with connect and disconnect of     *)
(* other connections: when it returns, every such connection has been sent *)
(* the message (or its send has raised), none has been sent it twice, and  *)
(* no connection whose send raised is still in active_connections.         *)
(***************************************************************************)
C30_BroadcastDelivers ==
  bcast.at = "done" =>
    /\ bcast.stayed \subseteq Range(bcast.sent) \cup Range(bcast.disconnected)
    /\ \A i, j \in 1..Len(bcast.sent) : bcast.sent[i] = bcast.sent[j] => i = j
    /\ Range(bcast.disconnected) \cap Range(active_connections) = {}

\* the two parts of C30 that hold: no connection is sent the message twice,
\* and none whose send raised is left in active_connections
C30_OnceAndCleaned ==
  bcast.at = "done" =>
    /\ \A i, j \in 1..Len(bcast.sent) : bcast.sent[i] = bcast.sent[j] => i = j
    /\ Range(bcast.sent) \cap Range(bcast.disconnected) = {}
    /\ Range(bcast.disconnected) \cap Range(active_connections) = {}

====
